---------------------------- MODULE Spec2Model ----------------------------
(***************************************************************************)
(* A model of the shader-description front end of McManning/Scratchpad:    *)
(*   - the PLY lexers with their exclusive 'glsl' state                    *)
(*       (shaders/ogsfx_future/lexer.py, shaders/scribble/lexer.py),       *)
(*   - the OGSFX document model and its code generator                     *)
(*       (addon/parsers/ogsfx/shaderdata.py, built by .../ogsfx/parser.py),*)
(*   - the GLSL loader (addon/loader/glsl.py),                             *)
(*   - the GLSL preprocessor (shaders/glsl/preprocessor.py),               *)
(*   - the grammar rules of the OGSFX and Scribble parsers                 *)
(*       (addon/parsers/ogsfx/parser.py, shaders/scribble/parser.py),      *)
(*   - the render engine's shader update and draw                          *)
(*       (core/engine.py, shaders/base.py, core/passes/...),               *)
(*   - the user shader and the mesh of the standalone renderer (micro.py). *)
(* Each component has its own specification (SpecLex, SpecGen, SpecLoad,   *)
(* SpecPre, SpecParse, SpecRules, SpecEngine, SpecShader, SpecMesh); the   *)
(* variables of the other components stay idle in it.                      *)
(*                                                                         *)
(* Text is modelled as a sequence of characters or of text chunks, so that *)
(* concatenation and slicing are the sequence operations.                  *)
(***************************************************************************)
EXTENDS Integers, Sequences, FiniteSets, TLC

VARIABLES
    \* ---- lexer (one module-level lexer object, lexer = lex.lex())
    dialect,      \* which lexer module: "ogsfx" or "scribble"
    lexdata,      \* the input string, a sequence of characters
    lexpos,       \* number of characters consumed
    lexstate,     \* "INITIAL" or "glsl"
    brace_level,  \* t.lexer.brace_level
    glsl_begin,   \* t.lexer.glsl_begin
    glsl_name,    \* t.lexer.glsl_name
    lineno,       \* t.lexer.lineno
    toks,         \* the tokens returned by token() so far
    lexerrors,    \* number of calls of t_error
    lexdone       \* token() has returned None (end of input)

VARIABLES
    \* ---- OGSFX document and OGSFXShader.get_glsl
    doc,          \* the OGSFXShader the parser built
    gen_pc,       \* "idle", "loop", "returned" or "raised"; "found" or
                  \* "find_raised" after a call of find_attributes
    gen_args,     \* [technique_name, stage_name] of the call
    gen_tech,     \* local technique
    gen_uniforms, \* local uniforms
    gen_defines,  \* local defines
    gen_i,        \* index of the next pass of 'for pss in technique.passes'
    gen_passes,   \* local passes, the dict that is returned
    gen_shader,   \* local shader of the latest iteration
    gen_exc,      \* the message of the exception raised, "" if none
    gen_calls,    \* number of calls of get_glsl made
    gen_prev,     \* how the call before the latest ended: [pc, passes, exc]
    found         \* find_attributes: [input_specifier, exc, v] of its call

genVars == <<doc, gen_pc, gen_args, gen_tech, gen_uniforms, gen_defines,
             gen_i, gen_passes, gen_shader, gen_exc, gen_calls, gen_prev,
             found>>

VARIABLES
    \* ---- files on disk, read by load_shader and by GLSLPreprocessor
    fs,           \* file name -> its lines; a name outside the domain is missing
    \* ---- load_shader
    load_pc,      \* "idle", "running", "returned" or "raised"
    load_args,    \* [file, defines] of the outermost call
    load_stack,   \* the activations of load_shader, innermost last
    load_result,  \* the string the outermost call returned
    load_exc      \* the exception raised: [msg, depth, file], msg "" if none

loadVars == <<load_pc, load_args, load_stack, load_result, load_exc>>

VARIABLES
    \* ---- GLSLPreprocessor
    pre_pc,       \* "idle", "parsing", "returned" or "raised"
    pre_stack,    \* the files being read, the one given to parse_file first
    includes,     \* self.includes
    lastlineno,   \* the locals of write()
    lastsource,
    blanklines,
    oh,           \* what write() has written
    pre_result,   \* the string parse_file returned
    pre_exc,      \* the exception raised, "" if none
    pre_macros,   \* the names of the macros the instance holds
    pre_defines,  \* the names given to define() before the first call
    pre_runs,     \* the number of calls of parse_file so far
    pre_prev,     \* what the call before this one left: result and includes
    pre_instance  \* the instance the present call runs on: "first", "same", "fresh"

\* What stays as it is through one call of parse_file
preCallVars == <<pre_defines, pre_runs, pre_prev, pre_instance>>

preVars == <<pre_pc, pre_stack, includes, lastlineno, lastsource, blanklines,
             oh, pre_result, pre_exc, pre_macros, preCallVars>>

VARIABLES
    \* ---- the texts given to the module's one lexer, one after the other
    lex_runs,     \* number of lexer.input calls made
    lex_prev      \* the tokens of the input before the latest

\* What stays as it is while an input is tokenized
lexCallVars == <<lex_runs, lex_prev>>

lexVars == <<dialect, lexdata, lexpos, lexstate, brace_level, glsl_begin,
             glsl_name, lineno, toks, lexerrors, lexdone, lexCallVars>>

VARIABLES
    \* ---- parser.parse
    yacc_pc,        \* "idle", "parsing" or "returned"
    yacc_tokens,    \* the tokens the lexer will hand out
    yacc_pos,       \* how many of them it has handed out
    lookahead,      \* the parser's lookahead token
    symstack,       \* what the parser has on its stack
    errorcount,     \* the parser's count of shifts to go until errors are reported again
    p_error_calls,  \* how often p_error has run
    yacc_result     \* what parse returned

yaccVars == <<yacc_pc, yacc_tokens, yacc_pos, lookahead, symstack, errorcount,
              p_error_calls, yacc_result>>

VARIABLES
    \* ---- the grammar rule functions of the parsers
    decl,           \* [dialect, tokens]: one declaration as the lexer's tokens
    rule_pc,        \* "idle", the name of the rule function that has run,
                    \* or "p_error"
    p0              \* p[0], the object the rule function built

ruleVars == <<decl, rule_pc, p0>>

VARIABLES
    \* ---- ScratchpadRenderEngine with one material
    mat_shader,       \* mat.shader: [exists, program, last_error]; exists is
                      \* FALSE while mat.shader is None
    settings,         \* mat.material.scratchpad: [live_reload, force_reload,
                      \* last_shader_error]
    disk,             \* the source files: [present, valid, modified], modified
                      \* when their mtimes differ from prev_mtimes
    compile_result,   \* how the latest call of compile ended: "none", "ok", "raised"
    updated,          \* the latest view_update: [compiled, exc]
    drawn,            \* the shader view_draw bound since the latest
                      \* view_update: "none" (no frame yet), "nothing", "own",
                      \* "fallback", or "NameError"
    fallback_program  \* ScratchpadRenderEngine.fallback_shader.program

engineVars == <<mat_shader, settings, disk, compile_result, updated, drawn,
                fallback_program>>

VARIABLES
    \* ---- micro.py: the user shader shared by the main and the render thread
    user_sources,          \* self.sources: [vs, fs], the load each was read in
    user_needs_recompile,  \* self.needs_recompile
    loads,                 \* loads of the source files begun so far
    update_pc,             \* main thread in update_settings: 0 outside,
                           \* k after k - 1 assignments of load_source_files
    bind_pc,               \* render thread in bind: 0 outside, k after
                           \* k - 1 stages of compile_program
    compiling,             \* the sources compile_stage has read: [vs, fs]
    recompiled             \* the sources of the latest complete compile_program

shaderVars == <<user_sources, user_needs_recompile, loads, update_pc, bind_pc,
                compiling, recompiled>>

VARIABLES
    \* ---- micro.py: a Mesh shared by the main and the render thread
    mesh_lock,    \* self.lock: "free", or the thread that holds it
    buffers,      \* self.vertices, self.normals, self.indices: the
                  \* rebuild each was built in
    is_dirty,     \* self.is_dirty
    rebuilds,     \* calls of rebuild begun so far
    rebuild_pc,   \* main thread in rebuild: 0 outside, k after k - 1 buffers
    draw_pc,      \* render thread in draw: 0 outside, 1 waiting for the
                  \* lock, k + 1 after k - 1 uploads
    uploaded      \* the buffers on the GPU: the rebuild each was built in

meshVars == <<mesh_lock, buffers, is_dirty, rebuilds, rebuild_pc, draw_pc,
              uploaded>>

vars == <<lexVars, genVars, fs, loadVars, preVars, yaccVars, ruleVars, engineVars, shaderVars, meshVars>>
notLex == <<genVars, fs, loadVars, preVars, yaccVars, ruleVars, engineVars, shaderVars, meshVars>>
notGen == <<lexVars, fs, loadVars, preVars, yaccVars, ruleVars, engineVars, shaderVars, meshVars>>
notLoad == <<lexVars, genVars, preVars, yaccVars, ruleVars, engineVars, shaderVars, meshVars>>
notPre == <<lexVars, genVars, loadVars, yaccVars, ruleVars, engineVars, shaderVars, meshVars>>
notYacc == <<lexVars, genVars, fs, loadVars, preVars, ruleVars, engineVars, shaderVars, meshVars>>
notRule == <<lexVars, genVars, fs, loadVars, preVars, yaccVars, engineVars,
            shaderVars, meshVars>>
notEngine == <<lexVars, genVars, fs, loadVars, preVars, yaccVars, ruleVars,
              shaderVars, meshVars>>
notShader == <<lexVars, genVars, fs, loadVars, preVars, yaccVars, ruleVars,
              engineVars, meshVars>>
notMesh == <<lexVars, genVars, fs, loadVars, preVars, yaccVars, ruleVars,
            engineVars, shaderVars>>

(***************************************************************************)
(* Generic helpers                                                         *)
(***************************************************************************)
\* The sequences over S of length 0..n
SeqUpTo(S, n) == UNION {[1..k -> S] : k \in 0..n}

RECURSIVE Flatten(_)
\* Concatenation of a sequence of sequences
Flatten(ss) == IF ss = <<>> THEN <<>> ELSE Head(ss) \o Flatten(Tail(ss))

\* Number of positions of s holding c
CountOf(s, c) == Cardinality({i \in 1..Len(s) : s[i] = c})

(***************************************************************************)
(* LEXER                                                                   *)
(***************************************************************************)
\* Longest input, counted in pieces
MaxPieces == 5
\* Texts given to the lexer one after the other
MaxInputs == 2

\* The letters that occur in the inputs (regex class [A-Za-z_])
Letters == {"G", "L", "S", "h", "a", "d", "e", "r", "A"}
\* The whitespace that occurs in the inputs (regex class \s)
Space == {" ", "\n"}

\* The literal the start pattern of t_begin_glsl opens with
Keyword(d) == IF d = "ogsfx"
              THEN <<"G", "L", "S", "L", "S", "h", "a", "d", "e", "r">>
              ELSE <<"G", "L", "S", "L">>

\* An input is a concatenation of pieces: a block start 'GLSLShader A{'
\* ('GLSL A{' in the Scribble dialect) or one character
PieceKinds == {"START", "A", "@", "{", "}", "\n"}
Piece(d, k) == IF k = "START" THEN Keyword(d) \o <<" ", "A", "{">> ELSE <<k>>
LexInputs(d) == {Flatten([i \in 1..Len(ps) |-> Piece(d, ps[i])]) :
                    ps \in SeqUpTo(PieceKinds, MaxPieces)}

\* End of the longest run of characters of S that starts after position p
RunEnd(data, p, S) ==
    CHOOSE e \in p..Len(data) :
        /\ \A i \in (p + 1)..e : data[i] \in S
        /\ e = Len(data) \/ data[e + 1] \notin S

\* The regular expression of t_begin_glsl matched at position p:
\* keyword \s+ [A-Za-z_][A-Za-z0-9_]* \s* \{    [end |-> 0] when it does not match
BeginGlslMatch(d, data, p) ==
    LET kw == Keyword(d)
        p1 == p + Len(kw)
    IN  IF p1 > Len(data) \/ SubSeq(data, p + 1, p1) # kw
        THEN [end |-> 0, name |-> <<>>]
        ELSE LET p2 == RunEnd(data, p1, Space)
                 p3 == RunEnd(data, p2, Letters)
                 p4 == RunEnd(data, p3, Space)
             IN  IF p2 > p1 /\ p3 > p2 /\ p4 < Len(data) /\ data[p4 + 1] = "{"
                 THEN [end |-> p4 + 1, name |-> SubSeq(data, p2 + 1, p3)]
                 ELSE [end |-> 0, name |-> <<>>]

Token(type, value, name, line) ==
    [type |-> type, value |-> value, name |-> name, lineno |-> line]

AtChar == ~lexdone /\ lexpos < Len(lexdata)
Cur == lexdata[lexpos + 1]

\* def t_newline(t): r'\n+'
t_newline ==
    /\ AtChar /\ lexstate = "INITIAL" /\ Cur = "\n"
    /\ LET e == RunEnd(lexdata, lexpos, {"\n"})
       IN  /\ lineno' = lineno + (e - lexpos)
           /\ lexpos' = e
    /\ UNCHANGED <<dialect, lexdata, lexstate, brace_level, glsl_begin,
                   glsl_name, toks, lexerrors, lexdone>>
    /\ UNCHANGED lexCallVars
    /\ UNCHANGED notLex

\* Newlines the start pattern's match adds to lineno (Scribble only)
BeginGlslLines(d, match) == IF d = "scribble" THEN CountOf(match, "\n") ELSE 0

\* def t_begin_glsl(t)
t_begin_glsl ==
    /\ AtChar /\ lexstate = "INITIAL"
    /\ LET m == BeginGlslMatch(dialect, lexdata, lexpos)
       IN  /\ m.end > 0
           /\ glsl_begin' = m.end
           /\ brace_level' = 1
           /\ lexstate' = "glsl"
           /\ glsl_name' = m.name
           /\ lineno' = lineno + BeginGlslLines(dialect,
                                     SubSeq(lexdata, lexpos + 1, m.end))
           /\ lexpos' = m.end
    /\ UNCHANGED <<dialect, lexdata, toks, lexerrors, lexdone>>
    /\ UNCHANGED lexCallVars
    /\ UNCHANGED notLex

\* def t_ID(t): r'[A-Za-z_][A-Za-z0-9_]*', tried after t_begin_glsl.
\* No keyword of either dialect can be spelled by the inputs, so the
\* token's type stays ID.
t_ID ==
    /\ AtChar /\ lexstate = "INITIAL" /\ Cur \in Letters
    /\ BeginGlslMatch(dialect, lexdata, lexpos).end = 0
    /\ LET e == RunEnd(lexdata, lexpos, Letters)
       IN  /\ toks' = Append(toks, Token("ID", SubSeq(lexdata, lexpos + 1, e),
                                         <<>>, lineno))
           /\ lexpos' = e
    /\ UNCHANGED <<dialect, lexdata, lexstate, brace_level, glsl_begin,
                   glsl_name, lineno, lexerrors, lexdone>>
    /\ UNCHANGED lexCallVars
    /\ UNCHANGED notLex

\* t_LBRACE = r'\{' and t_RBRACE = r'\}'
t_BRACE ==
    /\ AtChar /\ lexstate = "INITIAL" /\ Cur \in {"{", "}"}
    /\ toks' = Append(toks, Token(IF Cur = "{" THEN "LBRACE" ELSE "RBRACE",
                                  <<Cur>>, <<>>, lineno))
    /\ lexpos' = lexpos + 1
    /\ UNCHANGED <<dialect, lexdata, lexstate, brace_level, glsl_begin,
                   glsl_name, lineno, lexerrors, lexdone>>
    /\ UNCHANGED lexCallVars
    /\ UNCHANGED notLex

\* def t_error(t): no rule of the INITIAL state matches
t_error ==
    /\ AtChar /\ lexstate = "INITIAL" /\ Cur = "@"
    /\ lexerrors' = lexerrors + 1
    /\ lexpos' = lexpos + 1
    /\ UNCHANGED <<dialect, lexdata, lexstate, brace_level, glsl_begin,
                   glsl_name, lineno, toks, lexdone>>
    /\ UNCHANGED lexCallVars
    /\ UNCHANGED notLex

\* t_ignore = ' \t'
t_ignore ==
    /\ AtChar /\ lexstate = "INITIAL" /\ Cur = " "
    /\ lexpos' = lexpos + 1
    /\ UNCHANGED <<dialect, lexdata, lexstate, brace_level, glsl_begin,
                   glsl_name, lineno, toks, lexerrors, lexdone>>
    /\ UNCHANGED lexCallVars
    /\ UNCHANGED notLex

\* t_glsl_ignore = ' \t\n'
t_glsl_ignore ==
    /\ AtChar /\ lexstate = "glsl" /\ Cur \in Space
    /\ lexpos' = lexpos + 1
    /\ UNCHANGED <<dialect, lexdata, lexstate, brace_level, glsl_begin,
                   glsl_name, lineno, toks, lexerrors, lexdone>>
    /\ UNCHANGED lexCallVars
    /\ UNCHANGED notLex

\* def t_glsl_lbrace(t): r'\{'
t_glsl_lbrace ==
    /\ AtChar /\ lexstate = "glsl" /\ Cur = "{"
    /\ brace_level' = brace_level + 1
    /\ lexpos' = lexpos + 1
    /\ UNCHANGED <<dialect, lexdata, lexstate, glsl_begin, glsl_name, lineno,
                   toks, lexerrors, lexdone>>
    /\ UNCHANGED lexCallVars
    /\ UNCHANGED notLex

\* What t_glsl_rbrace adds to lineno when the block closes: the ogsfx lexer
\* calls count('\n') on the tuple (name, code), the Scribble lexer on the code
RbraceLines(d, name, code) ==
    IF d = "scribble" THEN CountOf(code, "\n")
    ELSE CountOf(<<name, code>>, <<"\n">>)

\* def t_glsl_rbrace(t): r'\}'
t_glsl_rbrace ==
    /\ AtChar /\ lexstate = "glsl" /\ Cur = "}"
    /\ brace_level' = brace_level - 1
    /\ lexpos' = lexpos + 1
    /\ IF brace_level' = 0
       THEN LET code == SubSeq(lexdata, glsl_begin + 1, lexpos' - 1)
            IN  /\ toks' = Append(toks, Token("GLSL", code, glsl_name, lineno))
                /\ lineno' = lineno + RbraceLines(dialect, glsl_name, code)
                /\ lexstate' = "INITIAL"
       ELSE UNCHANGED <<toks, lineno, lexstate>>
    /\ UNCHANGED <<dialect, lexdata, glsl_begin, glsl_name, lexerrors, lexdone>>
    /\ UNCHANGED lexCallVars
    /\ UNCHANGED notLex

\* The characters the regular expression of t_glsl_nonspace accepts: [^\s]
NonSpace == (Letters \cup {"@", "{", "}"})

\* def t_glsl_nonspace(t): r'[^\s]+', tried after the two brace rules
t_glsl_nonspace ==
    /\ AtChar /\ lexstate = "glsl" /\ Cur \notin Space \cup {"{", "}"}
    /\ lexpos' = RunEnd(lexdata, lexpos, NonSpace)
    /\ UNCHANGED <<dialect, lexdata, lexstate, brace_level, glsl_begin,
                   glsl_name, lineno, toks, lexerrors, lexdone>>
    /\ UNCHANGED lexCallVars
    /\ UNCHANGED notLex

\* token() at the end of the input returns None, in either state:
\* neither lexer defines t_eof, t_glsl_eof or t_glsl_error
LexEof ==
    /\ ~lexdone /\ lexpos >= Len(lexdata)
    /\ lexdone' = TRUE
    /\ UNCHANGED <<dialect, lexdata, lexpos, lexstate, brace_level, glsl_begin,
                   glsl_name, lineno, toks, lexerrors>>
    /\ UNCHANGED lexCallVars
    /\ UNCHANGED notLex

\* lexer.input(s) of a further parse of the same text, on the lexer the
\* module built once: PLY sets lexdata and lexpos and leaves lineno, the
\* state and the attributes the rules have set as they are
LexInputAgain ==
    /\ lexdone /\ lex_runs < MaxInputs
    /\ lexpos' = 0
    /\ lexdone' = FALSE
    /\ toks' = <<>>
    /\ lex_prev' = toks
    /\ lex_runs' = lex_runs + 1
    /\ UNCHANGED <<dialect, lexdata, lexstate, brace_level, glsl_begin,
                   glsl_name, lineno, lexerrors>>
    /\ UNCHANGED notLex

(***************************************************************************)
(* OGSFX DOCUMENT MODEL AND CODE GENERATOR                                 *)
(***************************************************************************)
\* Python's None for an optional string, and for an optional list or text
NoneStr == [none |-> TRUE, v |-> ""]
NoneSeq == [none |-> TRUE, v |-> <<>>]
Some(x) == [none |-> FALSE, v |-> x]

\* Longest pass list of a technique
MaxPasses == 2
\* Calls of get_glsl on one document
MaxCalls == 2

\* class Uniform (the fields the generator reads)
Uniform(type, name) == [type_specifier |-> type, name |-> name]
\* class VaryingAttribute
VaryingAttribute(type, name, input) ==
    [type_specifier |-> type, name |-> name, input_specifier |-> input]
\* class VertexStream; attributes is None when the declaration has no
\* attribute line (p_attribute_list_opt passes on the None of p_empty)
VertexStream(name, attributes) == [name |-> name, attributes |-> attributes]
\* class GLSLSource
GLSLSource(name, code) == [name |-> name, code |-> code]
\* class StageArgument; name is None for the two-word form 'in APPDATA'
StageArgument(qualifier, attribute_name, name) ==
    [type_qualifier |-> qualifier, attribute_name |-> attribute_name,
     name |-> name]
\* class Stage
Stage(name, in_arg, out_arg, shader_ids) ==
    [name |-> name, in_arg |-> in_arg, out_arg |-> out_arg,
     shader_ids |-> shader_ids]
\* class Pass
Pass(name, stages) == [name |-> name, stages |-> stages]
\* class Technique
Technique(name, passes) == [name |-> name, passes |-> passes]

\* OGSFXShader.__init__ and set_blocks: the four block lists in source
\* order, and the defines every document starts with
OGSFXShader(uniforms, attributes, techniques, glsl) ==
    [uniforms |-> uniforms, attributes |-> attributes,
     techniques |-> techniques, glsl |-> glsl,
     defines |-> <<[key |-> "DEBUG", value |-> Some("1")]>>]

\* ---- the documents of the model: what parser.parse returns for sources
\* ---- built from the following declarations
StageKinds == {"VertexShader", "PixelShader"}
\* The input specifiers asked for: two that streams use and one none uses
InputSpecifiers == {"POSITION", "NORMAL", "TANGENT"}
TechniqueNames == {"Main", "Alt"}
PassNames == {"p0", "p1"}

APPDATA == VertexStream("APPDATA",
              Some(<<VaryingAttribute("vec3", "co", "POSITION"),
                     VaryingAttribute("vec3", "no", "NORMAL")>>))
APPDATA_empty == VertexStream("APPDATA", NoneSeq)
V2F == VertexStream("V2F", Some(<<VaryingAttribute("vec4", "pos", "POSITION")>>))
Foo == GLSLSource("Foo", <<"Foo code block", "\n">>)
Foo2 == GLSLSource("Foo", <<"second Foo">>)
Bar == GLSLSource("Bar", <<"Bar code block">>)
gA == Uniform("float", "gA")
gB == Uniform("mat4", "gB")

\* (uniforms, vertex streams, GLSL blocks) of a document: everything
\* declared in either order, a block or a stream missing, a stream without
\* attributes, a block name declared twice
Declarations ==
    { <<<<gA, gB>>, <<APPDATA, V2F>>, <<Foo, Bar>>>>,
      <<<<gB, gA>>, <<V2F, APPDATA>>, <<Bar, Foo>>>>,
      <<<<>>,       <<APPDATA, V2F>>, <<Foo>>>>,
      <<<<gA>>,     <<APPDATA>>,      <<Foo, Bar>>>>,
      <<<<gA>>,     <<APPDATA_empty, V2F>>, <<Bar, Foo>>>>,
      <<<<gB>>,     <<V2F, APPDATA>>, <<Foo2, Foo, Bar>>>> }

VS1 == Stage("VertexShader", StageArgument("in", "APPDATA", NoneStr),
             StageArgument("out", "V2F", Some("vsout")), <<"Foo">>)
VS2 == Stage("VertexShader", StageArgument("in", "APPDATA", Some("vsin")),
             StageArgument("out", "APPDATA", NoneStr), <<"Bar", "Foo">>)
PS1 == Stage("PixelShader", StageArgument("in", "V2F", NoneStr),
             StageArgument("out", "V2F", NoneStr), <<"Foo", "Bar">>)

\* The stage lists of a pass: one stage, two kinds, one kind twice
StageLists == {<<VS1>>, <<PS1>>, <<VS1, PS1>>, <<VS2, VS1>>, <<PS1, VS2>>}
Passes == {Pass(n, sl) : n \in PassNames, sl \in StageLists}
PassLists == SeqUpTo(Passes, MaxPasses) \ {<<>>}
\* The technique lists: one technique, or a second one after it that has
\* the same or another name
TechniqueLists ==
    {<<Technique("Main", pl)>> : pl \in PassLists}
    \cup {<<Technique("Main", pl), Technique(n, <<Pass("p0", <<VS2>>)>>)>> :
             pl \in PassLists, n \in TechniqueNames}
Documents ==
    {OGSFXShader(d[1], d[2], tl, d[3]) : d \in Declarations, tl \in TechniqueLists}

\* A function result: the exception raised ("" when it returned) and the value
Return(v) == [exc |-> "", v |-> v]
Raise(msg) == [exc |-> msg, v |-> <<>>]

RECURSIVE UniformsLoop(_, _, _)
\* for uniform in self.uniforms: code += 'uniform {} {};\n'
UniformsLoop(us, i, code) ==
    IF i > Len(us) THEN code
    ELSE UniformsLoop(us, i + 1,
            code \o <<"uniform ", us[i].type_specifier, " ", us[i].name, ";\n">>)

\* OGSFXShader.get_uniforms_as_glsl
get_uniforms_as_glsl(d) == UniformsLoop(d.uniforms, 1, <<>>)

RECURSIVE DefinesLoop(_, _, _)
\* for key, value in self.defines.items(): code += '#define {} {}\n'
DefinesLoop(ds, i, code) ==
    IF i > Len(ds) THEN code
    ELSE DefinesLoop(ds, i + 1,
            code \o <<"#define ", ds[i].key, " ",
                      IF ds[i].value.none THEN "" ELSE ds[i].value.v, "\n">>)

\* get_defines_as_glsl yielding the defines to the first call alone
get_defines_as_glsl_Exhausted(d) ==
    IF gen_calls = 0 THEN DefinesLoop(d.defines, 1, <<>>) ELSE <<>>

\* OGSFXShader.get_defines_as_glsl
get_defines_as_glsl(d) == DefinesLoop(d.defines, 1, <<>>)

\* The first element of list l whose name is n (the index, 0 if none)
FirstNamed(l, n) ==
    IF \E i \in 1..Len(l) : l[i].name = n
    THEN CHOOSE i \in 1..Len(l) :
            l[i].name = n /\ \A j \in 1..(i - 1) : l[j].name # n
    ELSE 0

\* OGSFXShader.find_glsl_source
find_glsl_source(d, name) ==
    LET i == FirstNamed(d.glsl, name)
    IN  IF i = 0 THEN Raise("No GLSLShader named") ELSE Return(d.glsl[i])

\* OGSFXShader.find_vertex_stream
find_vertex_stream(d, name) ==
    LET i == FirstNamed(d.attributes, name)
    IN  IF i = 0 THEN Raise("No attribute named") ELSE Return(d.attributes[i])

\* OGSFXShader.find_technique
find_technique(d, name) ==
    LET i == FirstNamed(d.techniques, name)
    IN  IF i = 0 THEN Raise("No technique named") ELSE Return(d.techniques[i])

\* Pass.find_stage: the first stage of that name, None when there is none
find_stage(pss, name) ==
    LET i == FirstNamed(pss.stages, name)
    IN  IF i = 0 THEN NoneSeq ELSE Some(pss.stages[i])

RECURSIVE DirectAttrLoop(_, _, _, _)
\* for attr in vs.attributes: shader += '{} {} {};\n'
DirectAttrLoop(attrs, qualifier, i, shader) ==
    IF i > Len(attrs) THEN shader
    ELSE DirectAttrLoop(attrs, qualifier, i + 1,
            shader \o <<qualifier, " ", attrs[i].type_specifier, " ",
                        attrs[i].name, ";\n">>)

RECURSIVE BlockAttrLoop(_, _, _)
\* for attr in vs.attributes: shader += '    {} {};\n'
BlockAttrLoop(attrs, i, shader) ==
    IF i > Len(attrs) THEN shader
    ELSE BlockAttrLoop(attrs, i + 1,
            shader \o <<"    ", attrs[i].type_specifier, " ", attrs[i].name,
                        ";\n">>)

\* OGSFXShader.get_stage_argument_as_glsl
get_stage_argument_as_glsl(d, arg) ==
    LET qualifier == arg.type_qualifier
        vs == find_vertex_stream(d, arg.attribute_name)
    IN  IF vs.exc # "" THEN Raise(vs.exc)
        ELSE IF vs.v.attributes.none
        THEN Raise("TypeError: 'NoneType' object is not iterable")
        ELSE IF arg.name.none
        THEN Return(DirectAttrLoop(vs.v.attributes.v, qualifier, 1, <<>>))
        ELSE Return(BlockAttrLoop(vs.v.attributes.v, 1,
                        <<qualifier, " ", arg.attribute_name, " {\n">>)
                    \o <<"} ", arg.name.v, ";\n">>)

RECURSIVE SourcesLoop_Separated(_, _, _, _)
\* SourcesLoop writing a newline after each body
SourcesLoop_Separated(d, ids, i, shader) ==
    IF i > Len(ids) THEN Return(shader)
    ELSE LET glsl == find_glsl_source(d, ids[i])
         IN  IF glsl.exc # "" THEN Raise(glsl.exc)
             ELSE SourcesLoop_Separated(d, ids, i + 1,
                                        (shader \o glsl.v.code) \o <<"\n">>)

RECURSIVE SourcesLoop(_, _, _, _)
\* for name in stage.shader_ids: shader += self.find_glsl_source(name).code
SourcesLoop(d, ids, i, shader) ==
    IF i > Len(ids) THEN Return(shader)
    ELSE LET glsl == find_glsl_source(d, ids[i])
         IN  IF glsl.exc # "" THEN Raise(glsl.exc)
             ELSE SourcesLoop(d, ids, i + 1, shader \o glsl.v.code)

\* StageShader writing the out argument before the in argument
StageShader_OutFirst(d, stage, defines, uniforms) ==
    LET s0 == <<"#version 420 core\n">> \o defines \o uniforms
        a1 == get_stage_argument_as_glsl(d, stage.in_arg)
        a2 == get_stage_argument_as_glsl(d, stage.out_arg)
    IN  IF a1.exc # "" THEN Raise(a1.exc)
        ELSE IF a2.exc # "" THEN Raise(a2.exc)
        ELSE SourcesLoop(d, stage.shader_ids, 1, s0 \o a2.v \o a1.v)

\* The text the loop body of get_glsl builds for a stage that was found
StageShader(d, stage, defines, uniforms) ==
    LET s0 == <<"#version 420 core\n">> \o defines \o uniforms
        a1 == get_stage_argument_as_glsl(d, stage.in_arg)
        a2 == get_stage_argument_as_glsl(d, stage.out_arg)
    IN  IF a1.exc # "" THEN Raise(a1.exc)
        ELSE IF a2.exc # "" THEN Raise(a2.exc)
        ELSE SourcesLoop(d, stage.shader_ids, 1, s0 \o a1.v \o a2.v)

\* passes[name] = value
DictSet(dict, name, value) ==
    [n \in (DOMAIN dict) \cup {name} |-> IF n = name THEN value ELSE dict[n]]
EmptyDict == [n \in {} |-> NoneSeq]

NoTechnique == Technique("", <<>>)

\* DocAfterPass for a loop body that takes a block off the document's list
DocAfterPass_Consuming(d, pss) ==
    [d EXCEPT !.glsl = IF d.glsl = <<>> THEN <<>> ELSE Tail(d.glsl)]

\* What one iteration of 'for pss in technique.passes' leaves of document
\* d: the body assigns to the locals stage, shader, glsl and to the new
\* dict passes, and to no attribute of the document or of its objects
DocAfterPass(d, pss) == d

\* get_glsl, from its first statement to the head of its loop
GetGlslEnter(technique_name, stage_name) ==
    /\ gen_args' = [technique_name |-> technique_name, stage_name |-> stage_name]
    /\ gen_passes' = EmptyDict
    /\ gen_shader' = <<>>
    /\ LET technique == find_technique(doc, technique_name)
       IN  /\ gen_exc' = technique.exc
           /\ IF technique.exc # ""
              THEN /\ gen_pc' = "raised"
                   /\ UNCHANGED <<gen_tech, gen_uniforms, gen_defines, gen_i>>
              ELSE /\ gen_pc' = "loop"
                   /\ gen_tech' = technique.v
                   /\ gen_uniforms' = get_uniforms_as_glsl(doc)
                   /\ gen_defines' = get_defines_as_glsl(doc)
                   /\ gen_i' = 1
    /\ gen_calls' = gen_calls + 1
    /\ UNCHANGED <<doc, found>>
    /\ UNCHANGED notGen

\* The first call get_glsl(technique_name, stage_name) on the document
GetGlslCall(technique_name, stage_name) ==
    /\ gen_pc = "idle"
    /\ GetGlslEnter(technique_name, stage_name)
    /\ UNCHANGED gen_prev

\* A further call of get_glsl on the same document with the same arguments,
\* once the call before has returned or raised
GetGlslAgain ==
    /\ gen_pc \in {"returned", "raised"}
    /\ gen_calls < MaxCalls
    /\ gen_prev' = [pc |-> gen_pc, passes |-> gen_passes, exc |-> gen_exc]
    /\ GetGlslEnter(gen_args.technique_name, gen_args.stage_name)

\* get_glsl, one iteration of 'for pss in technique.passes'
GetGlslPass ==
    /\ gen_pc = "loop"
    /\ gen_i <= Len(gen_tech.passes)
    /\ LET pss == gen_tech.passes[gen_i]
           stage == find_stage(pss, gen_args.stage_name)
       IN  IF ~stage.none
           THEN LET shader == StageShader(doc, stage.v, gen_defines, gen_uniforms)
                IN  IF shader.exc # ""
                    THEN /\ gen_pc' = "raised"
                         /\ gen_exc' = shader.exc
                         /\ UNCHANGED <<gen_i, gen_passes, gen_shader>>
                         /\ UNCHANGED doc
                    ELSE /\ gen_passes' = DictSet(gen_passes, pss.name, Some(shader.v))
                         /\ gen_shader' = shader.v
                         /\ gen_i' = gen_i + 1
                         /\ doc' = DocAfterPass(doc, pss)
                         /\ UNCHANGED <<gen_pc, gen_exc>>
           ELSE /\ gen_passes' = DictSet(gen_passes, pss.name, NoneSeq)
                /\ gen_i' = gen_i + 1
                /\ doc' = DocAfterPass(doc, pss)
                /\ UNCHANGED <<gen_pc, gen_exc, gen_shader>>
    /\ UNCHANGED <<gen_args, gen_tech, gen_uniforms, gen_defines, gen_calls,
                   gen_prev, found>>
    /\ UNCHANGED notGen

\* get_glsl, 'return passes'
GetGlslReturn ==
    /\ gen_pc = "loop"
    /\ gen_i > Len(gen_tech.passes)
    /\ gen_pc' = "returned"
    /\ UNCHANGED <<doc, gen_args, gen_tech, gen_uniforms, gen_defines, gen_i,
                   gen_passes, gen_shader, gen_exc, gen_calls, gen_prev, found>>
    /\ UNCHANGED notGen

RECURSIVE FindAttributesLoop(_, _, _, _)
\* [a for a in self.attributes if a.input_specifier == input_specifier]:
\* the elements of self.attributes are the VertexStreams set_blocks put
\* there, and reading an attribute an object does not have raises
FindAttributesLoop(as, input_specifier, i, acc) ==
    IF i > Len(as) THEN Return(acc)
    ELSE IF "input_specifier" \notin DOMAIN as[i]
    THEN Raise("AttributeError: 'VertexStream' object has no attribute 'input_specifier'")
    ELSE FindAttributesLoop(as, input_specifier, i + 1,
            IF as[i].input_specifier = input_specifier
            THEN Append(acc, as[i]) ELSE acc)

\* OGSFXShader.find_attributes(input_specifier)
find_attributes(d, input_specifier) ==
    FindAttributesLoop(d.attributes, input_specifier, 1, <<>>)

\* A call of find_attributes on the document
FindAttributesCall(input_specifier) ==
    /\ gen_pc = "idle"
    /\ LET r == find_attributes(doc, input_specifier)
       IN  /\ found' = [input_specifier |-> input_specifier,
                        exc |-> r.exc, v |-> r.v]
           /\ gen_pc' = IF r.exc = "" THEN "found" ELSE "find_raised"
    /\ UNCHANGED <<doc, gen_args, gen_tech, gen_uniforms, gen_defines, gen_i,
                   gen_passes, gen_shader, gen_exc, gen_calls, gen_prev>>
    /\ UNCHANGED notGen

GenNext ==
    \/ \E t \in TechniqueNames, k \in StageKinds : GetGlslCall(t, k)
    \/ GetGlslPass
    \/ GetGlslReturn
    \/ GetGlslAgain
    \/ \E i \in InputSpecifiers : FindAttributesCall(i)

LexNext ==
    \/ t_newline
    \/ t_begin_glsl
    \/ t_ID
    \/ t_BRACE
    \/ t_error
    \/ t_ignore
    \/ t_glsl_ignore
    \/ t_glsl_lbrace
    \/ t_glsl_rbrace
    \/ t_glsl_nonspace
    \/ LexEof
    \/ LexInputAgain

(***************************************************************************)
(* GLSL LOADER: load_shader                                                *)
(***************************************************************************)
\* if depth > 100
MaxIncludeDepth == 100
\* Longest file, in lines
MaxLines == 2

\* A source line, by the branch of load_shader it takes: the version
\* pattern matches it, else the include pattern matches it (with the file
\* it names), else neither does
VersionLine == [kind |-> "version", file |-> ""]
IncludeLine(f) == [kind |-> "include", file |-> f]
TextLine == [kind |-> "text", file |-> ""]

\* The files: a.glsl is the one loaded and may include anything, b.glsl
\* sits beside it, m.glsl does not exist
LoadLineKinds == {TextLine, VersionLine, IncludeLine("a.glsl"),
                  IncludeLine("b.glsl"), IncludeLine("m.glsl")}
LoadFilesB == {<<>>, <<TextLine>>, <<VersionLine, TextLine>>,
               <<IncludeLine("a.glsl")>>, <<TextLine, IncludeLine("b.glsl")>>,
               <<IncludeLine("m.glsl")>>}
\* f.readlines(): every line keeps its newline, and the last line of a file
\* has one or not (nl); of an include line the name alone is used, so that
\* its newline is left out of the choice
ReadLines(lines, eol) ==
    [i \in 1..Len(lines) |->
        [kind |-> lines[i].kind, file |-> lines[i].file,
         nl |-> (i < Len(lines) \/ eol \/ lines[i].kind = "include")]]
\* b.glsl is left empty where a.glsl does not include it: it is never read
LoadFileSystems ==
    {[f \in {"a.glsl", "b.glsl"} |->
            IF f = "a.glsl" THEN ReadLines(t[1], t[3]) ELSE ReadLines(t[2], t[4])] :
        t \in {u \in SeqUpTo(LoadLineKinds, MaxLines) \X LoadFilesB
                        \X BOOLEAN \X BOOLEAN :
                  \/ u[2] = <<>>
                  \/ \E i \in 1..Len(u[1]) : u[1][i] = IncludeLine("b.glsl")}}
\* The defines argument, a dict in insertion order
LoadDefines == {<<>>, <<[key |-> "FOO", value |-> "bar"],
                         [key |-> "FIZZ", value |-> "buzz"]>>}

\* The pieces of the string load_shader builds, one per 'shader +=' of a
\* line; nl says whether the piece ends with a newline
OutLine(k, file, n, key, value) ==
    [k |-> k, file |-> file, n |-> n, key |-> key, value |-> value,
     nl |-> TRUE]
\* '#line {} "{}"\n'
LineDirective(n, basename) == OutLine("#line", basename, n, "", "")
\* line n of the file, copied as read
SourceLine(file, n, nl) ==
    [OutLine("source", file, n, "", "") EXCEPT !.nl = nl]
\* '\n'
EmptyLine == OutLine("", "", 0, "", "")
\* '#define {} {}\n'
DefineLine(key, value) == OutLine("#define", "", 0, key, value)
\* '#version {}\n'.format(DEFAULT_GLSL_VERSION)
DefaultVersionLine == OutLine("#version", "", 0, "", "330 core")

RECURSIVE DefineLines(_, _, _)
\* for k, v in defines.items(): shader += '#define {} {}\n'
DefineLines(defines, i, shader) ==
    IF i > Len(defines) THEN shader
    ELSE DefineLines(defines, i + 1,
                     Append(shader, DefineLine(defines[i].key, defines[i].value)))

\* LoadEnter answering a call past the depth limit with an empty file
LoadEnter_Unchecked(files, file, defines, depth, is_include) ==
    IF file \notin DOMAIN files
    THEN Raise("FileNotFoundError")
    ELSE Return([file |-> file, defines |-> defines, depth |-> depth,
                 is_include |-> is_include,
                 lines |-> IF depth > MaxIncludeDepth THEN <<>> ELSE files[file],
                 shader |-> <<LineDirective(1, file)>>,
                 i |-> 1, line_num |-> 1, has_version |-> FALSE])

\* LoadEnter opening a file that does not exist as an empty one
LoadEnter_MissingIsEmpty(files, file, defines, depth, is_include) ==
    IF depth > MaxIncludeDepth
    THEN Raise("Include exceeds max depth. Might be a recursive inclusion")
    ELSE Return([file |-> file, defines |-> defines, depth |-> depth,
                 is_include |-> is_include,
                 lines |-> IF file \in DOMAIN files THEN files[file] ELSE <<>>,
                 shader |-> <<LineDirective(1, file)>>,
                 i |-> 1, line_num |-> 1, has_version |-> FALSE])

\* LoadFinish prepending the default version whether or not the file has one
LoadFinish_AlwaysDefault(t) ==
    IF ~t.is_include
    THEN DefineLines(t.defines, 1, <<DefaultVersionLine>>) \o t.shader
    ELSE t.shader

\* load_shader up to its loop: the depth check, the open and the first
\* '#line'. The result is the new activation, or the exception.
LoadEnter(files, file, defines, depth, is_include) ==
    IF depth > MaxIncludeDepth
    THEN Raise("Include exceeds max depth. Might be a recursive inclusion")
    ELSE IF file \notin DOMAIN files
    THEN Raise("FileNotFoundError")
    ELSE Return([file |-> file, defines |-> defines, depth |-> depth,
                 is_include |-> is_include, lines |-> files[file],
                 shader |-> <<LineDirective(1, file)>>,
                 i |-> 1, line_num |-> 1, has_version |-> FALSE])

Top == load_stack[Len(load_stack)]
SetTop(frame) == [load_stack EXCEPT ![Len(load_stack)] = frame]
InLoop == load_pc = "running" /\ Top.i <= Len(Top.lines)

\* The outermost call load_shader(file, defines)
LoadShaderCall(file, defines) ==
    /\ load_pc = "idle"
    /\ load_args' = [file |-> file, defines |-> defines]
    /\ LET r == LoadEnter(fs, file, defines, 0, FALSE)
       IN  IF r.exc # ""
           THEN /\ load_pc' = "raised"
                /\ load_exc' = [msg |-> r.exc, depth |-> 0, file |-> file]
                /\ UNCHANGED load_stack
           ELSE /\ load_pc' = "running"
                /\ load_stack' = <<r.v>>
                /\ UNCHANGED load_exc
    /\ UNCHANGED <<fs, load_result>>
    /\ UNCHANGED notLoad

\* Loop body, 'if version_directive:'
LoadVersionLine ==
    /\ InLoop /\ Top.lines[Top.i].kind = "version"
    /\ LET t == Top
       IN  IF t.is_include \/ t.has_version
           THEN load_stack' = SetTop([t EXCEPT
                    !.shader = Append(t.shader, EmptyLine),
                    !.line_num = t.line_num + 1,
                    !.i = t.i + 1])
           ELSE load_stack' = SetTop([t EXCEPT
                    !.has_version = TRUE,
                    !.shader = Append(
                        DefineLines(t.defines, 1,
                                    Append(t.shader,
                                           SourceLine(t.file, t.i,
                                                      t.lines[t.i].nl))),
                        LineDirective(t.line_num + 1, t.file)),
                    !.line_num = t.line_num + 1,
                    !.i = t.i + 1])
    /\ UNCHANGED <<fs, load_pc, load_args, load_result, load_exc>>
    /\ UNCHANGED notLoad

\* Loop body, 'elif include_directive:', up to the recursive call
LoadIncludeLine ==
    /\ InLoop /\ Top.lines[Top.i].kind = "include"
    /\ LET r == LoadEnter(fs, Top.lines[Top.i].file, <<>>, Top.depth + 1, TRUE)
       IN  IF r.exc # ""
           THEN /\ load_pc' = "raised"
                /\ load_exc' = [msg |-> r.exc, depth |-> Top.depth + 1,
                                 file |-> Top.lines[Top.i].file]
                /\ load_stack' = <<>>
           ELSE /\ load_stack' = Append(load_stack, r.v)
                /\ UNCHANGED <<load_pc, load_exc>>
    /\ UNCHANGED <<fs, load_args, load_result>>
    /\ UNCHANGED notLoad

\* Loop body, 'else:'
LoadTextLine ==
    /\ InLoop /\ Top.lines[Top.i].kind = "text"
    /\ load_stack' = SetTop([Top EXCEPT
            !.shader = Append(Top.shader,
                              SourceLine(Top.file, Top.i, Top.lines[Top.i].nl)),
            !.line_num = Top.line_num + 1,
            !.i = Top.i + 1])
    /\ UNCHANGED <<fs, load_pc, load_args, load_result, load_exc>>
    /\ UNCHANGED notLoad

\* After the loop: 'if not has_version and not is_include' and 'return shader'
LoadFinish(t) ==
    IF ~t.has_version /\ ~t.is_include
    THEN DefineLines(t.defines, 1, <<DefaultVersionLine>>) \o t.shader
    ELSE t.shader

\* The return of an activation, and the rest of the include branch of its
\* caller: shader += <returned>, line_num += 1, shader += '\n#line ...'
LoadReturn ==
    /\ load_pc = "running" /\ Top.i > Len(Top.lines)
    /\ LET ret == LoadFinish(Top)
       IN  IF Len(load_stack) = 1
           THEN /\ load_pc' = "returned"
                /\ load_result' = ret
                /\ load_stack' = <<>>
           ELSE LET c == load_stack[Len(load_stack) - 1]
                IN  /\ load_stack' =
                         Append(SubSeq(load_stack, 1, Len(load_stack) - 2),
                            [c EXCEPT
                               !.shader = (c.shader \o ret)
                                   \o <<EmptyLine,
                                        LineDirective(c.line_num + 1, c.file)>>,
                               !.line_num = c.line_num + 1,
                               !.i = c.i + 1])
                    /\ UNCHANGED <<load_pc, load_result>>
    /\ UNCHANGED <<fs, load_args, load_exc>>
    /\ UNCHANGED notLoad

LoadNext ==
    \/ \E d \in LoadDefines : LoadShaderCall("a.glsl", d)
    \/ LoadVersionLine
    \/ LoadIncludeLine
    \/ LoadTextLine
    \/ LoadReturn

(***************************************************************************)
(* GLSL PREPROCESSOR: GLSLPreprocessor over pcpp                           *)
(*                                                                         *)
(* pcpp itself (lib/pcpp) is not part of the sources at hand.  What it     *)
(* does with a line is modelled from section 4.2 of the specification:     *)
(* an '#include' splices the processed lines of the included file, a       *)
(* directive is not passed through, the include depth is bounded by 100.   *)
(* The methods GLSLPreprocessor overrides are modelled from their code.    *)
(***************************************************************************)
\* write(): 'blanklines > 6', 'newlinesneeded > 6'
BlankLineLimit == 6

BlankSourceLine == [kind |-> "blank", file |-> ""]

\* The files: a.glsl is the one parsed, it may include itself, b.glsl and
\* c.glsl; b.glsl may include c.glsl
PreLineKindsA == {TextLine, BlankSourceLine, VersionLine, IncludeLine("a.glsl"),
                  IncludeLine("b.glsl"), IncludeLine("c.glsl")}
PreFilesB == {<<>>, <<TextLine>>, <<BlankSourceLine>>, <<VersionLine>>,
              <<VersionLine, TextLine>>, <<VersionLine, VersionLine>>,
              <<IncludeLine("c.glsl"), TextLine>>,
              <<TextLine, IncludeLine("c.glsl")>>}
PreFilesC == {<<>>, <<TextLine>>, <<VersionLine>>}
PreFileSystems ==
    {[f \in {"a.glsl", "b.glsl", "c.glsl"} |->
        IF f = "a.glsl" THEN la ELSE IF f = "b.glsl" THEN lb ELSE lc] :
        la \in SeqUpTo(PreLineKindsA, MaxLines), lb \in PreFilesB,
        lc \in PreFilesC}

\* Lines that hold the directives of conditional compilation
DefineLineOf(m) == [kind |-> "define", macro |-> m]
IfdefLine(m) == [kind |-> "ifdef", macro |-> m]
IfndefLine(m) == [kind |-> "ifndef", macro |-> m]
ElseLine == [kind |-> "else", macro |-> ""]
EndifLine == [kind |-> "endif", macro |-> ""]

\* A file whose text is behind an include guard
GuardedFile ==
    <<IfndefLine("GUARD"), DefineLineOf("GUARD"), TextLine, EndifLine>>
\* '#ifdef DEBUG', yes, '#else', no, '#endif'
IfdefElseFile ==
    <<IfdefLine("DEBUG"), TextLine, ElseLine, TextLine, EndifLine>>

\* File trees with conditionals: a.glsl with a guard, a.glsl with the two
\* branches, a.glsl including a guarded b.glsl twice, a.glsl including
\* b.glsl and '#version' under conditions, a guarded a.glsl including itself
PreConditionalFiles ==
    {<<GuardedFile, <<TextLine>>>>,
     <<IfdefElseFile, <<TextLine>>>>,
     <<<<IncludeLine("b.glsl"), IncludeLine("b.glsl"), TextLine>>, GuardedFile>>,
     <<<<IfdefLine("DEBUG"), IncludeLine("b.glsl"), EndifLine,
         IfndefLine("DEBUG"), VersionLine, TextLine, EndifLine>>,
       <<VersionLine, TextLine>>>>,
     <<<<IfndefLine("GUARD"), DefineLineOf("GUARD"), IncludeLine("a.glsl"),
         TextLine, EndifLine>>, <<>>>>}
PreConditionalFileSystems ==
    {[f \in {"a.glsl", "b.glsl", "c.glsl"} |->
        IF f = "a.glsl" THEN ab[1] ELSE IF f = "b.glsl" THEN ab[2] ELSE <<>>] :
        ab \in PreConditionalFiles}

\* The macros named to define() before parse_file
PreDefines == {{}, {"DEBUG"}}

\* Calls of parse_file in a row
MaxRuns == 2

\* One line of tokens as write() accumulates it: the source and line number
\* of its first token, whether it is all whitespace, and the directive it
\* holds if pcpp let a directive through
TokenLine(source, lineno_, all_ws, directive) ==
    [source |-> source, lineno |-> lineno_, all_ws |-> all_ws,
     directive |-> directive]

\* What write() writes
\* oh.write('\n')
WrittenNewline ==
    [k |-> "\n", n |-> 0, id |-> 0, source |-> NoneStr, directive |-> ""]
\* oh.write('{} {} {}\n'.format(self.line_directive, lastlineno, lastsource_id))
WrittenLineDirective(n, id) ==
    [k |-> "#line", n |-> n, id |-> id, source |-> NoneStr, directive |-> ""]
\* for tok in toks: oh.write(tok.value)
WrittenTokens(line) ==
    [k |-> "tokens", n |-> line.lineno, id |-> 0, source |-> line.source,
     directive |-> line.directive]

\* on_directive_handle letting '#version' through
on_directive_handle_KeepVersion(directive) ==
    IF directive = "include" THEN "execute"
    ELSE IF directive = "version" THEN "IgnoreAndPassThrough"
    ELSE "execute"

\* on_directive_handle with 'raise OutputDirective(Action.IgnoreAndPassThrough)'
\* in place of the call of the method it overrides
on_directive_handle_PassThrough(directive) ==
    IF directive = "include" THEN "execute"
    ELSE IF directive = "version" THEN "IgnoreAndRemove"
    ELSE "IgnoreAndPassThrough"

\* GLSLPreprocessor.on_directive_handle: what pcpp is told to do with a
\* directive. Returning True has pcpp execute it.
on_directive_handle(directive) ==
    IF directive = "include" THEN "execute"
    ELSE IF directive = "version" THEN "IgnoreAndRemove"
    ELSE "execute"

\* The 0-based index of the first x in list l
IndexOf(l, x) == (CHOOSE i \in 1..Len(l) : l[i] = x /\ \A j \in 1..(i - 1) : l[j] # x) - 1

\* GLSLPreprocessor.include_to_id: the id, and self.includes afterwards
include_to_id(incs, include) ==
    IF \E i \in 1..Len(incs) : incs[i] = include
    THEN [id |-> IndexOf(incs, include), includes |-> incs]
    ELSE [id |-> Len(incs), includes |-> Append(incs, include)]

\* n newlines
Newlines(n) == [i \in 1..n |-> WrittenNewline]

\* One round of the outer loop of write(), on the line accumulated
WriteLine(w, line) ==
    IF line.all_ws
    THEN [w EXCEPT !.blanklines = w.blanklines + 1]
    ELSE
    LET sourceChanged == IF w.lastsource.none THEN ~line.source.none
                         ELSE w.lastsource # line.source
        emit1 == (w.blanklines > BlankLineLimit) \/ sourceChanged
        newlinesneeded == line.lineno - w.lastlineno - 1
        emitlinedirective == emit1 \/ newlinesneeded > BlankLineLimit
        written1 == IF ~emit1 /\ newlinesneeded <= BlankLineLimit
                        /\ newlinesneeded > 0
                    THEN w.oh \o Newlines(newlinesneeded) ELSE w.oh
        r == IF line.source.none THEN [id |-> 0, includes |-> w.includes]
             ELSE include_to_id(w.includes, line.source.v)
        written2 == IF emitlinedirective
                    THEN Append(written1, WrittenLineDirective(line.lineno, r.id))
                    ELSE written1
    IN  [lastlineno |-> line.lineno,
         lastsource |-> line.source,
         blanklines |-> 0,
         includes |-> IF emitlinedirective THEN r.includes ELSE w.includes,
         oh |-> Append(written2, WrittenTokens(line))]

\* The locals of write() and self.includes, as one record
WriteState ==
    [lastlineno |-> lastlineno, lastsource |-> lastsource,
     blanklines |-> blanklines, includes |-> includes, oh |-> oh]

\* write() takes the line pcpp produced
Written(line) ==
    LET w == WriteLine(WriteState, line)
    IN  /\ lastlineno' = w.lastlineno
        /\ lastsource' = w.lastsource
        /\ blanklines' = w.blanklines
        /\ includes' = w.includes
        /\ oh' = w.oh

PreTop == pre_stack[Len(pre_stack)]
PreAdvance == [pre_stack EXCEPT ![Len(pre_stack)].i = @ + 1]
PreInFile == pre_pc = "parsing" /\ PreTop.i <= Len(fs[PreTop.file])
PreLine == fs[PreTop.file][PreTop.i]
\* The line is in a part of the file that a conditional has not switched off
PreLive == PreInFile /\ PreTop.enable

\* pcpp starting on a file: its position, and the state of its conditionals
PreFrame(file, source) ==
    [file |-> file, source |-> source, i |-> 1, enable |-> TRUE,
     iftrigger |-> FALSE, ifstack |-> <<>>]

\* parse_file up to the first token write() asks for
ParseFileStart(filename) ==
    /\ includes' = <<filename>>
    /\ pre_stack' = <<PreFrame(filename, NoneStr)>>
    /\ pre_pc' = "parsing"
    /\ lastlineno' = 0 /\ lastsource' = NoneStr /\ blanklines' = 0 /\ oh' = <<>>

\* p = GLSLPreprocessor(); p.define(...) for each of defines; p.parse_file(filename)
ParseFileCall(filename, defines) ==
    /\ pre_pc = "idle"
    /\ ParseFileStart(filename)
    /\ pre_macros' = defines
    /\ pre_defines' = defines
    /\ pre_runs' = 1
    /\ UNCHANGED <<fs, pre_result, pre_exc, pre_prev, pre_instance>>
    /\ UNCHANGED notPre

\* parse_file(filename) once more after it returned, on the same instance
\* as GLSLShader.compile does, or on a new one set up in the same way
ParseFileAgain(filename, instance) ==
    /\ pre_pc = "returned" /\ pre_runs < MaxRuns
    /\ ParseFileStart(filename)
    /\ pre_prev' = [result |-> pre_result, includes |-> includes]
    /\ pre_instance' = instance
    /\ pre_macros' = IF instance = "fresh" THEN pre_defines ELSE pre_macros
    /\ pre_runs' = pre_runs + 1
    /\ UNCHANGED <<fs, pre_result, pre_exc, pre_defines>>
    /\ UNCHANGED notPre

\* pcpp reads a line that holds no directive
PcppSourceLine ==
    /\ PreLive /\ PreLine.kind \in {"text", "blank"}
    /\ Written(TokenLine(PreTop.source, PreTop.i, PreLine.kind = "blank", ""))
    /\ pre_stack' = PreAdvance
    /\ UNCHANGED <<fs, pre_pc, pre_result, pre_exc, pre_macros, preCallVars>>
    /\ UNCHANGED notPre

\* pcpp reads a '#version' line and asks on_directive_handle
PcppVersionLine ==
    /\ PreLive /\ PreLine.kind = "version"
    /\ IF on_directive_handle("version") = "IgnoreAndRemove"
       THEN Written(TokenLine(PreTop.source, PreTop.i, TRUE, ""))
       ELSE Written(TokenLine(PreTop.source, PreTop.i, FALSE, "version"))
    /\ pre_stack' = PreAdvance
    /\ UNCHANGED <<fs, pre_pc, pre_result, pre_exc, pre_macros, preCallVars>>
    /\ UNCHANGED notPre

\* pcpp reads an '#include' line, asks on_directive_handle and opens the file
PcppIncludeLine ==
    /\ PreLive /\ PreLine.kind = "include"
    /\ on_directive_handle("include") = "execute"
    /\ IF Len(pre_stack) > MaxIncludeDepth
       THEN /\ pre_pc' = "raised"
            /\ pre_exc' = "IncludeError(RecursionLimitExceeded)"
            /\ pre_stack' = <<>>
       ELSE /\ pre_stack' = Append(pre_stack,
                                   PreFrame(PreLine.file, Some(PreLine.file)))
            /\ UNCHANGED <<pre_pc, pre_exc>>
    /\ UNCHANGED <<fs, includes, lastlineno, lastsource, blanklines, oh,
                   pre_result, pre_macros, preCallVars>>
    /\ UNCHANGED notPre

\* pcpp reads a '#define' line and asks on_directive_handle
PcppDefineLine ==
    /\ PreLive /\ PreLine.kind = "define"
    /\ IF on_directive_handle("define") = "execute"
       THEN /\ pre_macros' = pre_macros \cup {PreLine.macro}
            /\ Written(TokenLine(PreTop.source, PreTop.i, TRUE, ""))
       ELSE /\ Written(TokenLine(PreTop.source, PreTop.i, FALSE, "define"))
            /\ UNCHANGED pre_macros
    /\ pre_stack' = PreAdvance
    /\ UNCHANGED <<fs, pre_pc, pre_result, pre_exc, preCallVars>>
    /\ UNCHANGED notPre

\* The conditionals of a file after pcpp executed the directive of line l
Conditional(t, l, macros) ==
    IF l.kind \in {"ifdef", "ifndef"}
    THEN LET holds == (l.macro \in macros) <=> (l.kind = "ifdef")
         IN  [t EXCEPT
                !.ifstack = Append(t.ifstack,
                    [enable |-> t.enable, iftrigger |-> t.iftrigger]),
                !.enable = t.enable /\ holds,
                !.iftrigger = IF t.enable THEN holds ELSE t.iftrigger]
    ELSE IF l.kind = "else"
    THEN IF t.ifstack[Len(t.ifstack)].enable
         THEN IF t.enable THEN [t EXCEPT !.enable = FALSE]
              ELSE IF ~t.iftrigger
              THEN [t EXCEPT !.enable = TRUE, !.iftrigger = TRUE]
              ELSE t
         ELSE t
    ELSE [t EXCEPT
            !.enable = t.ifstack[Len(t.ifstack)].enable,
            !.iftrigger = t.ifstack[Len(t.ifstack)].iftrigger,
            !.ifstack = SubSeq(t.ifstack, 1, Len(t.ifstack) - 1)]

\* pcpp reads '#ifdef', '#ifndef', '#else' or '#endif' and asks
\* on_directive_handle
PcppConditionalLine ==
    /\ PreInFile /\ PreLine.kind \in {"ifdef", "ifndef", "else", "endif"}
    /\ IF on_directive_handle(PreLine.kind) = "execute"
       THEN /\ pre_stack' = [pre_stack EXCEPT ![Len(pre_stack)] =
                    [Conditional(PreTop, PreLine, pre_macros)
                        EXCEPT !.i = PreTop.i + 1]]
            /\ Written(TokenLine(PreTop.source, PreTop.i, TRUE, ""))
       ELSE /\ pre_stack' = PreAdvance
            /\ Written(TokenLine(PreTop.source, PreTop.i, FALSE, PreLine.kind))
    /\ UNCHANGED <<fs, pre_pc, pre_result, pre_exc, pre_macros, preCallVars>>
    /\ UNCHANGED notPre

\* pcpp reads a line in a part that a conditional has switched off
PcppSkippedLine ==
    /\ PreInFile /\ ~PreTop.enable
    /\ PreLine.kind \notin {"ifdef", "ifndef", "else", "endif"}
    /\ pre_stack' = PreAdvance
    /\ UNCHANGED <<fs, pre_pc, includes, lastlineno, lastsource, blanklines,
                   oh, pre_result, pre_exc, pre_macros, preCallVars>>
    /\ UNCHANGED notPre

\* pcpp reaches the end of an included file and goes on after the
\* '#include' line, of which the newline is left
PcppEndOfInclude ==
    /\ pre_pc = "parsing" /\ Len(pre_stack) > 1
    /\ PreTop.i > Len(fs[PreTop.file])
    /\ LET c == pre_stack[Len(pre_stack) - 1]
       IN  /\ Written(TokenLine(c.source, c.i, TRUE, ""))
           /\ pre_stack' = Append(SubSeq(pre_stack, 1, Len(pre_stack) - 2),
                                  [c EXCEPT !.i = c.i + 1])
    /\ UNCHANGED <<fs, pre_pc, pre_result, pre_exc, pre_macros, preCallVars>>
    /\ UNCHANGED notPre

\* No more tokens: write() ends and parse_file returns output.getvalue()
ParseFileReturn ==
    /\ pre_pc = "parsing" /\ Len(pre_stack) = 1
    /\ PreTop.i > Len(fs[PreTop.file])
    /\ pre_pc' = "returned"
    /\ pre_result' = oh
    /\ pre_stack' = <<>>
    /\ UNCHANGED <<fs, includes, lastlineno, lastsource, blanklines, oh,
                   pre_exc, pre_macros, preCallVars>>
    /\ UNCHANGED notPre

PreNext ==
    \/ \E defines \in PreDefines : ParseFileCall("a.glsl", defines)
    \/ \E instance \in {"same", "fresh"} : ParseFileAgain("a.glsl", instance)
    \/ PcppSourceLine
    \/ PcppVersionLine
    \/ PcppIncludeLine
    \/ PcppDefineLine
    \/ PcppConditionalLine
    \/ PcppSkippedLine
    \/ PcppEndOfInclude
    \/ ParseFileReturn

(***************************************************************************)
(* OGSFX PARSER: parser.parse and p_error                                  *)
(*                                                                         *)
(* The grammar is cut down to 'shader : block_list', 'block : GLSL' and    *)
(* 'block : uniform' with 'uniform : UNIFORM type_specifier ID SEMI'.      *)
(* The parsing engine is PLY's (ply.yacc, a library): on a token it has    *)
(* no action for it calls p_error unless it is still recovering, and when  *)
(* p_error has not called errok() it unwinds its stack, drops the token    *)
(* and starts over in its initial state.                                   *)
(***************************************************************************)
\* for i in range(0, 10): tok = parser.token()
DumpAhead == 10
\* ply.yacc: error_count, the shifts after an error before p_error is called again
error_count == 3
\* Longest input, in pieces
MaxParsePieces == 4

\* The pieces inputs are made of: two blocks, a token no block starts
\* with, ten more tokens, and a block that breaks off
ParsePieces ==
    {<<"GLSL">>, <<"UNIFORM", "FLOAT", "ID", "SEMI">>, <<"SEMI">>,
     [i \in 1..DumpAhead |-> "ID"], <<"UNIFORM", "FLOAT">>}
ParseInputs ==
    {Flatten(ps) : ps \in SeqUpTo(ParsePieces, MaxParsePieces) \ {<<>>}}

NoToken == [type |-> "", at |-> 0]
\* lexer.token(): the token after the first pos tokens, '$end' after the last
TokenAt(pos) ==
    IF pos < Len(yacc_tokens)
    THEN [type |-> yacc_tokens[pos + 1], at |-> pos + 1]
    ELSE [type |-> "$end", at |-> 0]

\* The stack: the blocks reduced into block_list, each known by the place
\* of its first token, and the tokens shifted of a uniform not yet reduced
EmptyStack == [blocks |-> <<>>, partial |-> <<>>]

\* The parser has an action for token type t on top of stack st
HasAction(st, t) ==
    IF st.partial = <<>> THEN t \in {"GLSL", "UNIFORM"}
    ELSE IF Len(st.partial) = 1 THEN t = "FLOAT"
    ELSE IF Len(st.partial) = 2 THEN t = "ID"
    ELSE t = "SEMI"

\* The stack after the shift of token tok and the reductions it completes
Shift(st, tok) ==
    IF tok.type = "GLSL" THEN [st EXCEPT !.blocks = Append(st.blocks, tok.at)]
    ELSE IF tok.type = "SEMI"
    THEN [blocks |-> Append(st.blocks, st.partial[1]), partial |-> <<>>]
    ELSE [st EXCEPT !.partial = Append(st.partial, tok.at)]

\* parser.parse(source), to its first token
YaccParseCall ==
    /\ yacc_pc = "idle"
    /\ yacc_pc' = "parsing"
    /\ lookahead' = TokenAt(0)
    /\ yacc_pos' = 1
    /\ UNCHANGED <<yacc_tokens, symstack, errorcount, p_error_calls, yacc_result>>
    /\ UNCHANGED notYacc

\* The parser shifts the lookahead and reads the next token
YaccShift ==
    /\ yacc_pc = "parsing" /\ HasAction(symstack, lookahead.type)
    /\ symstack' = Shift(symstack, lookahead)
    /\ errorcount' = IF errorcount > 0 THEN errorcount - 1 ELSE 0
    /\ lookahead' = TokenAt(yacc_pos)
    /\ yacc_pos' = yacc_pos + 1
    /\ UNCHANGED <<yacc_pc, yacc_tokens, p_error_calls, yacc_result>>
    /\ UNCHANGED notYacc

\* At '$end' with a block_list and nothing begun: shader is reduced and returned
YaccAccept ==
    /\ yacc_pc = "parsing" /\ lookahead.type = "$end"
    /\ symstack.partial = <<>> /\ symstack.blocks # <<>>
    /\ yacc_pc' = "returned"
    /\ yacc_result' = Some(symstack.blocks)
    /\ UNCHANGED <<yacc_tokens, yacc_pos, lookahead, symstack, errorcount,
                   p_error_calls>>
    /\ UNCHANGED notYacc

\* p_error(p): the number of tokens it reads from the lexer
p_error(p, pos) ==
    IF p.type = "$end" THEN 0
    ELSE IF Len(yacc_tokens) - pos >= DumpAhead THEN DumpAhead
    ELSE IF Len(yacc_tokens) - pos > 0 THEN Len(yacc_tokens) - pos
    ELSE 0

\* The parser has no action for the lookahead: it calls p_error if it is
\* not recovering from an error before, returns None at '$end', and else
\* unwinds its stack, drops the lookahead and starts over
YaccError ==
    /\ yacc_pc = "parsing"
    /\ ~HasAction(symstack, lookahead.type)
    /\ ~(lookahead.type = "$end" /\ symstack.partial = <<>>
            /\ symstack.blocks # <<>>)
    /\ LET read == IF errorcount = 0 THEN p_error(lookahead, yacc_pos) ELSE 0
       IN  /\ p_error_calls' = IF errorcount = 0 THEN p_error_calls + 1
                               ELSE p_error_calls
           /\ errorcount' = error_count
           /\ IF lookahead.type = "$end"
              THEN /\ yacc_pc' = "returned"
                   /\ yacc_result' = NoneSeq
                   /\ UNCHANGED <<yacc_pos, lookahead, symstack>>
              ELSE /\ symstack' = EmptyStack
                   /\ lookahead' = TokenAt(yacc_pos + read)
                   /\ yacc_pos' = yacc_pos + read + 1
                   /\ UNCHANGED <<yacc_pc, yacc_result>>
    /\ UNCHANGED yacc_tokens
    /\ UNCHANGED notYacc

YaccNext ==
    \/ YaccParseCall
    \/ YaccShift
    \/ YaccAccept
    \/ YaccError

(***************************************************************************)
(* GRAMMAR RULES: what the parsers build from one declaration              *)
(*                                                                         *)
(* decl is the token sequence of one declaration as the lexer hands it to  *)
(* the parser: a uniform or a stage of an OGSFX document, a technique of a *)
(* Scribble document.  A rule function runs when the tokens are a sentence *)
(* of its production; when they are a sentence of no production the parser *)
(* calls p_error and builds nothing.  A production is modelled by the set  *)
(* of its matches from a place of the token sequence on: no match, or one  *)
(* match with the value of p[0] and the place after it.  Token values are  *)
(* kept as the text that was written; a constant is the sequence of its    *)
(* numbers (one for a number, two for a vec2).  Of the annotation grammar  *)
(* the forms 'type ID ;', 'type ID = const ;' and the same with            *)
(* '( "text" )' after the ID are modelled, of constants the number and the *)
(* vec2.                                                                   *)
(***************************************************************************)
Tok(type, value) == [type |-> type, value |-> value]
\* The token at place i, '$end' after the last
At(ts, i) == IF i \in 1..Len(ts) THEN ts[i] ELSE Tok("$end", "")
\* A match: the value of p[0] and the place after the matched tokens
Match(v, n) == [v |-> v, n |-> n]

\* p_number, p_constant_vec2, p_constant
constant(ts, i) ==
    IF At(ts, i).type \in {"INT_CONST", "FLOAT_CONST"}
    THEN {Match(<<At(ts, i).value>>, i + 1)}
    ELSE IF /\ At(ts, i).type = "LBRACE"
            /\ At(ts, i + 1).type \in {"INT_CONST", "FLOAT_CONST"}
            /\ At(ts, i + 2).type = "COMMA"
            /\ At(ts, i + 3).type \in {"INT_CONST", "FLOAT_CONST"}
            /\ At(ts, i + 4).type = "RBRACE"
    THEN {Match(<<At(ts, i + 1).value, At(ts, i + 3).value>>, i + 5)}
    ELSE {}

\* p_annotation_args, p_annotation_args_opt, p_annotations_args_opt_empty:
\* the description of the pair (description, ui_specifier); the
\* ui_specifier is None
annotation_args_opt(ts, i) ==
    IF At(ts, i).type = "LPAREN"
    THEN IF At(ts, i + 1).type = "STRING_CONST" /\ At(ts, i + 2).type = "RPAREN"
         THEN {Match(At(ts, i + 1).value, i + 3)}
         ELSE {}
    ELSE {Match("", i)}

\* class Annotation as p_annotation and p_annotation_no_const fill it
Annotation(type, name, description, value) ==
    [type_specifier |-> type, name |-> name, description |-> description,
     ui_specifier |-> NoneStr, value |-> value]

\* p_annotation_type_specifier, p_annotation, p_annotation_no_const
annotation(ts, i) ==
    IF At(ts, i).type \in {"STRING", "INT", "FLOAT", "BOOL"}
       /\ At(ts, i + 1).type = "ID"
    THEN UNION {
           IF At(ts, a.n).type = "SEMI"
           THEN {Match(Annotation(At(ts, i).value, At(ts, i + 1).value, a.v,
                                  NoneStr), a.n + 1)}
           ELSE IF /\ At(ts, a.n).type = "EQ"
                   /\ At(ts, a.n + 1).type \in
                         {"INT_CONST", "FLOAT_CONST", "STRING_CONST", "BOOL_CONST"}
                   /\ At(ts, a.n + 2).type = "SEMI"
           THEN {Match(Annotation(At(ts, i).value, At(ts, i + 1).value, a.v,
                                  Some(At(ts, a.n + 1).value)), a.n + 3)}
           ELSE {} : a \in annotation_args_opt(ts, i + 2)}
    ELSE {}

RECURSIVE annotation_list(_, _, _)
\* p_annotation_list: one annotation or more, p[1] + [p[2]]; the list goes
\* on while the next token begins an annotation
annotation_list(ts, i, acc) ==
    IF At(ts, i).type \in {"STRING", "INT", "FLOAT", "BOOL"}
    THEN UNION {annotation_list(ts, a.n, Append(acc, a.v)) : a \in annotation(ts, i)}
    ELSE IF acc = <<>> THEN {} ELSE {Match(acc, i)}

\* p_annotations_opt: p[2] if len(p) > 2 else []
annotations_opt(ts, i) ==
    IF At(ts, i).type = "LT"
    THEN {Match(l.v, l.n + 1) :
             l \in {m \in annotation_list(ts, i + 1, <<>>) : At(ts, m.n).type = "GT"}}
    ELSE {Match(<<>>, i)}

\* p_type_specifier
type_specifier(ts, i) ==
    IF At(ts, i).type \in {"FLOAT", "INT", "VEC2", "VEC3", "VEC4", "MAT3",
                           "MAT4", "TEXTURE2D", "SAMPLER2D"}
    THEN {Match(At(ts, i).value, i + 1)}
    ELSE {}

\* The tail of both uniform productions: SEMI, or EQ constant SEMI; the
\* value is p[6] (p[7]) if the longer production matched, None otherwise
uniform_tail(ts, i) ==
    IF At(ts, i).type = "SEMI" THEN {Match(NoneSeq, i + 1)}
    ELSE IF At(ts, i).type = "EQ"
    THEN {Match(Some(c.v), c.n + 1) :
             c \in {m \in constant(ts, i + 1) : At(ts, m.n).type = "SEMI"}}
    ELSE {}

\* 'uniform : UNIFORM type_specifier ID annotations_opt SEMI
\*          | UNIFORM type_specifier ID annotations_opt EQ constant SEMI'
\* and the Uniform p_uniform builds (alias stays the None of __init__)
uniform(ts) ==
    IF At(ts, 1).type = "UNIFORM" /\ At(ts, 3).type = "ID"
    THEN UNION {UNION {
           {[type_specifier |-> t.v, name |-> At(ts, 3).value,
             alias |-> NoneStr, annotations |-> a.v, value |-> e.v] :
               e \in {m \in uniform_tail(ts, a.n) : m.n = Len(ts) + 1}} :
           a \in annotations_opt(ts, 4)} : t \in type_specifier(ts, 2)}
    ELSE {}

\* 'uniform : UNIFORM type_specifier ID COLON ID SEMI
\*          | UNIFORM type_specifier ID COLON ID EQ constant SEMI'
\* and the Uniform p_uniform_with_alias builds (annotations stays the []
\* of __init__)
uniform_with_alias(ts) ==
    IF /\ At(ts, 1).type = "UNIFORM" /\ At(ts, 3).type = "ID"
       /\ At(ts, 4).type = "COLON" /\ At(ts, 5).type = "ID"
    THEN UNION {
           {[type_specifier |-> t.v, name |-> At(ts, 3).value,
             alias |-> Some(At(ts, 5).value), annotations |-> <<>>,
             value |-> e.v] :
               e \in {m \in uniform_tail(ts, 6) : m.n = Len(ts) + 1}} :
           t \in type_specifier(ts, 2)}
    ELSE {}

RECURSIVE id_list(_, _, _)
\* p_id_list: ID, or id_list COMMA ID
id_list(ts, i, acc) ==
    IF At(ts, i).type # "ID" THEN {}
    ELSE IF At(ts, i + 1).type = "COMMA"
    THEN id_list(ts, i + 2, Append(acc, At(ts, i).value))
    ELSE {Match(Append(acc, At(ts, i).value), i + 1)}

\* p_shader_id_list (OGSFX): ID, or LBRACE id_list RBRACE
shader_id_list(ts, i) ==
    IF At(ts, i).type = "ID" THEN {Match(<<At(ts, i).value>>, i + 1)}
    ELSE IF At(ts, i).type = "LBRACE"
    THEN {Match(l.v, l.n + 1) :
             l \in {m \in id_list(ts, i + 1, <<>>) : At(ts, m.n).type = "RBRACE"}}
    ELSE {}

\* p_stage_argument and p_stage_argument_untyped: IN or OUT, the stream,
\* and the instance name or None
stage_argument(ts, i) ==
    IF At(ts, i).type \in {"IN", "OUT"} /\ At(ts, i + 1).type = "ID"
    THEN IF At(ts, i + 2).type = "ID"
         THEN {Match(StageArgument(At(ts, i).value, At(ts, i + 1).value,
                                   Some(At(ts, i + 2).value)), i + 3)}
         ELSE {Match(StageArgument(At(ts, i).value, At(ts, i + 1).value,
                                   NoneStr), i + 2)}
    ELSE {}

\* p_stage_name and p_stage (OGSFX):
\* 'stage : stage_name LPAREN stage_argument COMMA stage_argument RPAREN
\*          EQ shader_id_list SEMI'
ogsfx_stage(ts) ==
    IF /\ At(ts, 1).type \in {"VERTEXSHADER", "TESSCONTROLSHADER",
                              "TESSEVALSHADER", "GEOMETRYSHADER", "PIXELSHADER"}
       /\ At(ts, 2).type = "LPAREN"
    THEN UNION {UNION {
           {Stage(At(ts, 1).value, a1.v, a2.v, l.v) :
               l \in {m \in shader_id_list(ts, a2.n + 2) :
                         At(ts, m.n).type = "SEMI" /\ m.n = Len(ts)}} :
           a2 \in {m \in stage_argument(ts, a1.n + 1) :
                      At(ts, m.n).type = "RPAREN" /\ At(ts, m.n + 1).type = "EQ"}} :
           a1 \in {m \in stage_argument(ts, 3) : At(ts, m.n).type = "COMMA"}}
    ELSE {}

\* p_one_or_more_ids (Scribble): ID, or LPAREN id_list RPAREN
one_or_more_ids(ts, i) ==
    IF At(ts, i).type = "ID" THEN {Match(<<At(ts, i).value>>, i + 1)}
    ELSE IF At(ts, i).type = "LPAREN"
    THEN {Match(l.v, l.n + 1) :
             l \in {m \in id_list(ts, i + 1, <<>>) : At(ts, m.n).type = "RPAREN"}}
    ELSE {}

\* p_stage_name and p_stage (Scribble): 'stage : stage_name EQ one_or_more_ids'
scribble_stage(ts, i) ==
    IF /\ At(ts, i).type \in {"VERTEXSHADER", "TESSCONTROLSHADER",
                              "TESSEVALSHADER", "GEOMETRYSHADER", "FRAGMENTSHADER"}
       /\ At(ts, i + 1).type = "EQ"
    THEN {Match([name |-> At(ts, i).value, source_names |-> l.v], l.n) :
             l \in one_or_more_ids(ts, i + 2)}
    ELSE {}

RECURSIVE scribble_stage_list_Prepending(_, _, _)
\* A variant of scribble_stage_list that puts each stage before the ones
\* reduced so far
scribble_stage_list_Prepending(ts, i, acc) ==
    IF At(ts, i).type \in {"VERTEXSHADER", "TESSCONTROLSHADER",
                           "TESSEVALSHADER", "GEOMETRYSHADER", "FRAGMENTSHADER"}
    THEN UNION {scribble_stage_list_Prepending(ts, s.n, <<s.v>> \o acc) :
                   s \in scribble_stage(ts, i)}
    ELSE IF acc = <<>> THEN {} ELSE {Match(acc, i)}

RECURSIVE scribble_stage_list(_, _, _)
\* p_stage_list (Scribble): one stage or more, p[1] + [p[2]]; the list
\* goes on while the next token is a stage name
scribble_stage_list(ts, i, acc) ==
    IF At(ts, i).type \in {"VERTEXSHADER", "TESSCONTROLSHADER",
                           "TESSEVALSHADER", "GEOMETRYSHADER", "FRAGMENTSHADER"}
    THEN UNION {scribble_stage_list(ts, s.n, Append(acc, s.v)) :
                   s \in scribble_stage(ts, i)}
    ELSE IF acc = <<>> THEN {} ELSE {Match(acc, i)}

\* p_pass (Scribble): 'pass : PASS LBRACE stage_list RBRACE'
scribble_pass(ts, i) ==
    IF At(ts, i).type = "PASS" /\ At(ts, i + 1).type = "LBRACE"
    THEN {Match([stages |-> l.v], l.n + 1) :
             l \in {m \in scribble_stage_list(ts, i + 2, <<>>) :
                       At(ts, m.n).type = "RBRACE"}}
    ELSE {}

RECURSIVE scribble_pass_list(_, _, _)
\* p_pass_list (Scribble): one pass or more, p[1] + [p[2]]; the list goes
\* on while the next token is PASS
scribble_pass_list(ts, i, acc) ==
    IF At(ts, i).type = "PASS"
    THEN UNION {scribble_pass_list(ts, s.n, Append(acc, s.v)) :
                   s \in scribble_pass(ts, i)}
    ELSE IF acc = <<>> THEN {} ELSE {Match(acc, i)}

\* p_technique (Scribble): 'technique : TECHNIQUE ID LBRACE pass_list RBRACE'
scribble_technique(ts) ==
    IF /\ At(ts, 1).type = "TECHNIQUE" /\ At(ts, 2).type = "ID"
       /\ At(ts, 3).type = "LBRACE"
    THEN {[name |-> At(ts, 2).value, passes |-> l.v] :
             l \in {m \in scribble_pass_list(ts, 4, <<>>) :
                       At(ts, m.n).type = "RBRACE" /\ m.n = Len(ts)}}
    ELSE {}

\* ---- the declarations given to the parsers, written out as tokens
\* The token of a keyword
KeywordTok(v) ==
    Tok(CASE v = "string" -> "STRING" [] v = "float" -> "FLOAT"
          [] v = "vec2" -> "VEC2" [] v = "in" -> "IN" [] v = "out" -> "OUT"
          [] v = "VertexShader" -> "VERTEXSHADER"
          [] v = "PixelShader" -> "PIXELSHADER"
          [] v = "Vertex" -> "VERTEXSHADER"
          [] v = "Geometry" -> "GEOMETRYSHADER"
          [] v = "Fragment" -> "FRAGMENTSHADER", v)
\* The tokens of id, id, ...
RECURSIVE WriteIds(_)
WriteIds(ids) ==
    IF Len(ids) = 1 THEN <<Tok("ID", ids[1])>>
    ELSE <<Tok("ID", ids[1]), Tok("COMMA", ",")>> \o WriteIds(Tail(ids))

\* The tokens of the annotation a: type name [( "description" )] [= "value"] ;
WriteAnnotation(a) ==
    <<KeywordTok(a.type_specifier), Tok("ID", a.name)>>
    \o (IF a.description = "" THEN <<>>
        ELSE <<Tok("LPAREN", "("), Tok("STRING_CONST", a.description),
               Tok("RPAREN", ")")>>)
    \o (IF a.value.none THEN <<>>
        ELSE <<Tok("EQ", "="), Tok("STRING_CONST", a.value.v)>>)
    \o <<Tok("SEMI", ";")>>

\* The tokens of a constant: a number, or { number , number }
WriteConstant(c) ==
    IF Len(c) = 1 THEN <<Tok("FLOAT_CONST", c[1])>>
    ELSE <<Tok("LBRACE", "{"), Tok("FLOAT_CONST", c[1]), Tok("COMMA", ","),
           Tok("FLOAT_CONST", c[2]), Tok("RBRACE", "}")>>

\* The tokens of 'uniform type name [: alias] [< annotations >] [= constant] ;'
\* with the optional parts that are not None
WriteUniform(type, name, alias, annotations, value) ==
    <<Tok("UNIFORM", "uniform"), KeywordTok(type), Tok("ID", name)>>
    \o (IF alias.none THEN <<>> ELSE <<Tok("COLON", ":"), Tok("ID", alias.v)>>)
    \o (IF annotations.none THEN <<>>
        ELSE <<Tok("LT", "<")>>
             \o Flatten([i \in 1..Len(annotations.v) |->
                            WriteAnnotation(annotations.v[i])])
             \o <<Tok("GT", ">")>>)
    \o (IF value.none THEN <<>> ELSE <<Tok("EQ", "=")>> \o WriteConstant(value.v))
    \o <<Tok("SEMI", ";")>>

UIName == Annotation("string", "UIName", "", Some("Color"))
UIMin == Annotation("float", "UIMin", "lower", NoneStr)
WrittenAliases == {NoneStr, Some("Diffuse")}
WrittenAnnotations == {NoneSeq, Some(<<UIName>>), Some(<<UIMin, UIName>>)}
WrittenConstants == {NoneSeq, Some(<<"0.5">>), Some(<<"0.0", "1.0">>)}
UniformDecls ==
    {WriteUniform(t, "color", al, an, c) :
        t \in {"float", "vec2"}, al \in WrittenAliases,
        an \in WrittenAnnotations, c \in WrittenConstants}
    \* the parts in another order, and a declaration that breaks off
    \cup {<<Tok("UNIFORM", "uniform"), KeywordTok("float"), Tok("ID", "color"),
            Tok("EQ", "="), Tok("FLOAT_CONST", "0.5"), Tok("COLON", ":"),
            Tok("ID", "Diffuse"), Tok("SEMI", ";")>>,
          <<Tok("UNIFORM", "uniform"), KeywordTok("float"), Tok("ID", "color")>>}

\* The tokens of a stage argument: qualifier stream [name]
WriteStageArgument(a) ==
    <<KeywordTok(a.type_qualifier), Tok("ID", a.attribute_name)>>
    \o (IF a.name.none THEN <<>> ELSE <<Tok("ID", a.name.v)>>)

\* The tokens of 'kind ( argument , argument ) = ids ;' where ids is one
\* identifier or, with braces, { id , ... }
WriteOgsfxStage(kind, a1, a2, ids, braces) ==
    <<KeywordTok(kind), Tok("LPAREN", "(")>> \o WriteStageArgument(a1)
    \o <<Tok("COMMA", ",")>> \o WriteStageArgument(a2)
    \o <<Tok("RPAREN", ")"), Tok("EQ", "=")>>
    \o (IF braces THEN <<Tok("LBRACE", "{")>> \o WriteIds(ids) \o <<Tok("RBRACE", "}")>>
        ELSE WriteIds(ids))
    \o <<Tok("SEMI", ";")>>

WrittenArguments ==
    {StageArgument("in", "APPDATA", NoneStr), StageArgument("in", "APPDATA", Some("IN")),
     StageArgument("out", "V2F", NoneStr), StageArgument("out", "V2F", Some("OUT"))}
WrittenIds == {<<<<"VS">>, FALSE>>, <<<<"VS">>, TRUE>>, <<<<"Common", "VS">>, TRUE>>}
OgsfxStageDecls ==
    {WriteOgsfxStage(k, a1, a2, w[1], w[2]) :
        k \in {"VertexShader", "PixelShader"}, a1 \in WrittenArguments,
        a2 \in WrittenArguments, w \in WrittenIds}

\* Longest pass list of a written Scribble technique
MaxWrittenPasses == 2

\* The tokens of a Scribble stage 'Kind = A' or 'Kind = ( A , B , ... )'
WriteScribbleStage(s) ==
    <<KeywordTok(s.name), Tok("EQ", "=")>>
    \o (IF s.parens
        THEN <<Tok("LPAREN", "(")>> \o WriteIds(s.source_names) \o <<Tok("RPAREN", ")")>>
        ELSE WriteIds(s.source_names))
\* The tokens of 'Pass { stage ... }'
WriteScribblePass(stages) ==
    <<Tok("PASS", "Pass"), Tok("LBRACE", "{")>>
    \o Flatten([j \in 1..Len(stages) |-> WriteScribbleStage(stages[j])])
    \o <<Tok("RBRACE", "}")>>
\* The tokens of 'Technique name { pass ... }'
WriteScribbleTechnique(name, passes) ==
    <<Tok("TECHNIQUE", "Technique"), Tok("ID", name), Tok("LBRACE", "{")>>
    \o Flatten([i \in 1..Len(passes) |-> WriteScribblePass(passes[i])])
    \o <<Tok("RBRACE", "}")>>

MockVS == [name |-> "Vertex", source_names |-> <<"Common", "MockVS">>, parens |-> TRUE]
MockFS == [name |-> "Fragment", source_names |-> <<"MockFS">>, parens |-> FALSE]
MockGS == [name |-> "Geometry", source_names |-> <<"MockGS", "Common", "Util">>,
           parens |-> TRUE]
OneVS == [name |-> "Vertex", source_names |-> <<"MockVS">>, parens |-> TRUE]
WrittenStageLists ==
    {<<MockVS>>, <<MockFS>>, <<OneVS, MockFS>>, <<MockFS, MockVS>>,
     <<MockGS, MockVS, MockFS>>}
WrittenPassLists == SeqUpTo(WrittenStageLists, MaxWrittenPasses) \ {<<>>}
ScribbleTechniqueDecls ==
    {WriteScribbleTechnique("Main", pl) : pl \in WrittenPassLists}
    \* a stage with no source name, and a technique that breaks off
    \cup {<<Tok("TECHNIQUE", "Technique"), Tok("ID", "Main"), Tok("LBRACE", "{"),
            Tok("PASS", "Pass"), Tok("LBRACE", "{"), KeywordTok("Vertex"),
            Tok("EQ", "="), Tok("LPAREN", "("), Tok("RPAREN", ")"),
            Tok("RBRACE", "}"), Tok("RBRACE", "}")>>,
          <<Tok("TECHNIQUE", "Technique"), Tok("ID", "Main"), Tok("LBRACE", "{"),
            Tok("PASS", "Pass"), Tok("LBRACE", "{"), KeywordTok("Vertex"),
            Tok("EQ", "="), Tok("ID", "MockVS"), Tok("RBRACE", "}")>>}

RuleInputs ==
    {[dialect |-> "ogsfx", tokens |-> ts] : ts \in UniformDecls \cup OgsfxStageDecls}
    \cup {[dialect |-> "scribble", tokens |-> ts] : ts \in ScribbleTechniqueDecls}

\* p_uniform runs: the tokens are a sentence of its production
p_uniform ==
    /\ rule_pc = "idle" /\ decl.dialect = "ogsfx"
    /\ \E u \in uniform(decl.tokens) : p0' = u
    /\ rule_pc' = "p_uniform"
    /\ UNCHANGED decl
    /\ UNCHANGED notRule

\* p_uniform_with_alias runs
p_uniform_with_alias ==
    /\ rule_pc = "idle" /\ decl.dialect = "ogsfx"
    /\ \E u \in uniform_with_alias(decl.tokens) : p0' = u
    /\ rule_pc' = "p_uniform_with_alias"
    /\ UNCHANGED decl
    /\ UNCHANGED notRule

\* p_stage of the OGSFX parser runs, its arguments and id list reduced
p_stage ==
    /\ rule_pc = "idle" /\ decl.dialect = "ogsfx"
    /\ \E s \in ogsfx_stage(decl.tokens) : p0' = s
    /\ rule_pc' = "p_stage"
    /\ UNCHANGED decl
    /\ UNCHANGED notRule

\* p_technique of the Scribble parser runs, its passes and stages reduced
p_technique ==
    /\ rule_pc = "idle" /\ decl.dialect = "scribble"
    /\ \E t \in scribble_technique(decl.tokens) : p0' = t
    /\ rule_pc' = "p_technique"
    /\ UNCHANGED decl
    /\ UNCHANGED notRule

\* The productions of the dialect that decl is a sentence of
Sentences(d) ==
    IF d.dialect = "ogsfx"
    THEN uniform(d.tokens) \cup uniform_with_alias(d.tokens) \cup ogsfx_stage(d.tokens)
    ELSE scribble_technique(d.tokens)

\* The tokens are a sentence of no production: the parser calls p_error
\* and no object is built from them
RuleSyntaxError ==
    /\ rule_pc = "idle" /\ Sentences(decl) = {}
    /\ rule_pc' = "p_error"
    /\ UNCHANGED <<decl, p0>>
    /\ UNCHANGED notRule

RuleNext ==
    \/ p_uniform
    \/ p_uniform_with_alias
    \/ p_stage
    \/ p_technique
    \/ RuleSyntaxError

(***************************************************************************)
(* RENDER ENGINE: view_update and view_draw of core/engine.py              *)
(*                                                                         *)
(* One material with the GLSL loader.  The user's settings, the source     *)
(* files on disk and the two callbacks of Blender are the steps; both      *)
(* callbacks run on Blender's calls, one at a time.                        *)
(***************************************************************************)
CompileErrorMessage == "Vertex Shader Error:\n..."
MissingFileMessage == "Missing required vertex shader"

\* BaseShader.is_compiled
is_compiled(shader) == shader.program > -1

\* BaseShader.needs_recompile with mtimes_changed
needs_recompile(shader) == ~is_compiled(shader) \/ disk.modified

\* The body of the try block of update_material_shader: the shader, the
\* settings, whether update_mtimes has run, what compile did, and the
\* message of the exception caught, "" if none
UpdateTry(shader, s) ==
    LET cleared == [shader EXCEPT !.last_error = NoneStr]
    IN  IF ~disk.present
        THEN \* update_properties raises
             [shader |-> cleared, settings |-> s, stat |-> FALSE,
              compiled |-> "none", exc |-> MissingFileMessage]
        ELSE IF s.force_reload \/ (s.live_reload /\ needs_recompile(cleared))
        THEN IF disk.valid
             THEN [shader |-> [cleared EXCEPT !.program = 1],
                   settings |-> [s EXCEPT !.force_reload = FALSE,
                                          !.last_shader_error = ""],
                   stat |-> TRUE, compiled |-> "ok", exc |-> ""]
             ELSE \* compile_program raises after update_mtimes
                  [shader |-> cleared,
                   settings |-> [s EXCEPT !.force_reload = FALSE],
                   stat |-> TRUE, compiled |-> "raised",
                   exc |-> CompileErrorMessage]
        ELSE [shader |-> cleared, settings |-> s, stat |-> FALSE,
              compiled |-> "none", exc |-> ""]

\* ScratchpadRenderEngine.view_update with update_material and
\* update_material_shader for the one material of the scene
view_update ==
    LET active == IF mat_shader.exists THEN mat_shader
                  ELSE [exists |-> TRUE, program |-> -1, last_error |-> NoneStr]
        s0 == IF mat_shader.exists THEN settings
              ELSE [settings EXCEPT !.last_shader_error = ""]
        r == UpdateTry(active, s0)
    IN  /\ mat_shader' = IF r.exc = "" THEN r.shader
                         ELSE [r.shader EXCEPT !.last_error = Some(r.exc)]
        /\ settings' = IF r.exc = "" THEN r.settings
                       ELSE [r.settings EXCEPT !.last_shader_error = r.exc]
        /\ disk' = IF r.stat THEN [disk EXCEPT !.modified = FALSE] ELSE disk
        /\ compile_result' = IF r.compiled = "none" THEN compile_result
                             ELSE r.compiled
        /\ updated' = [compiled |-> r.compiled, exc |-> r.exc]
        /\ drawn' = "none"
        /\ UNCHANGED fallback_program
        /\ UNCHANGED notEngine

\* ScratchpadRenderEngine.view_draw: check_fallback_shader, then
\* DrawObjectsPass.execute over the materials view_update has tracked.  The
\* name ScratchpadRenderEngine is not defined in draw_objects_pass.py.
view_draw ==
    /\ fallback_program' = IF fallback_program > -1 THEN fallback_program ELSE 0
    /\ drawn' = IF ~mat_shader.exists THEN "nothing"
                ELSE IF ~mat_shader.last_error.none THEN "NameError"
                ELSE "own"
    /\ UNCHANGED <<mat_shader, settings, disk, compile_result, updated>>
    /\ UNCHANGED notEngine

\* The user presses Reload Sources or changes a file name (force_reload),
\* or switches Live Reload
UserSetting ==
    /\ \/ settings' = [settings EXCEPT !.force_reload = TRUE]
       \/ settings' = [settings EXCEPT !.live_reload = ~settings.live_reload]
    /\ UNCHANGED <<mat_shader, disk, compile_result, updated, drawn,
                   fallback_program>>
    /\ UNCHANGED notEngine

\* The user saves a source file, with an error in it or without, or
\* deletes or restores the vertex shader file
DiskChange ==
    /\ \/ \E valid \in BOOLEAN : disk' = [disk EXCEPT !.valid = valid, !.modified = TRUE]
       \/ disk' = [disk EXCEPT !.present = ~disk.present]
    /\ UNCHANGED <<mat_shader, settings, compile_result, updated, drawn,
                   fallback_program>>
    /\ UNCHANGED notEngine

EngineNext ==
    \/ view_update
    \/ view_draw
    \/ UserSetting
    \/ DiskChange

(***************************************************************************)
(* MICRO RENDERER, SHADER: UserShader.update_settings on the main thread   *)
(* and BaseShader.bind on the render thread (micro.py)                     *)
(*                                                                         *)
(* The threads share the shader object without a lock; a step is one read  *)
(* or write of one of its attributes.  The sources read from disk are      *)
(* known by the number of the load that read them (0: none yet); of the    *)
(* stages the vertex and the fragment shader are modelled.                 *)
(***************************************************************************)
\* Loads of the source files by update_settings
MaxLoads == 2

\* STAGES in the order load_source_files and compile_program go through them
ShaderStages == <<"vs", "fs">>

\* update_settings up to load_source_files: the files are there and
\* force_reload, or live_reload and changed mtimes, call for a load (load),
\* or they do not and the call returns or raises
UpdateSettingsCall ==
    /\ update_pc = 0
    /\ \E load \in BOOLEAN :
          IF load /\ loads < MaxLoads
          THEN update_pc' = 1 /\ loads' = loads + 1
          ELSE UNCHANGED <<update_pc, loads>>
    /\ UNCHANGED <<user_sources, user_needs_recompile, bind_pc, compiling,
                   recompiled>>
    /\ UNCHANGED notShader

\* load_source_files: self.sources[stage] = f.read(), one stage after another
LoadSourceFile ==
    /\ update_pc \in 1..Len(ShaderStages)
    /\ user_sources' = [user_sources EXCEPT ![ShaderStages[update_pc]] = loads]
    /\ update_pc' = update_pc + 1
    /\ UNCHANGED <<user_needs_recompile, loads, bind_pc, compiling, recompiled>>
    /\ UNCHANGED notShader

\* self.needs_recompile = True, and update_settings returns
SetNeedsRecompile ==
    /\ update_pc = Len(ShaderStages) + 1
    /\ user_needs_recompile' = TRUE
    /\ update_pc' = 0
    /\ UNCHANGED <<user_sources, loads, bind_pc, compiling, recompiled>>
    /\ UNCHANGED notShader

\* bind: 'if self.needs_recompile'; without it bind goes on to glUseProgram
BindCall ==
    /\ bind_pc = 0
    /\ bind_pc' = IF user_needs_recompile THEN 1 ELSE 0
    /\ UNCHANGED <<user_sources, user_needs_recompile, loads, update_pc,
                   compiling, recompiled>>
    /\ UNCHANGED notShader

\* recompile, compile_program: compile_stage reads self.sources[stage], one
\* stage after another; after the last the program is linked
CompileStage ==
    /\ bind_pc \in 1..Len(ShaderStages)
    /\ LET read == [compiling EXCEPT ![ShaderStages[bind_pc]] =
                                        user_sources[ShaderStages[bind_pc]]]
       IN  /\ compiling' = read
           /\ recompiled' = IF bind_pc = Len(ShaderStages) THEN read
                            ELSE recompiled
    /\ bind_pc' = bind_pc + 1
    /\ UNCHANGED <<user_sources, user_needs_recompile, loads, update_pc>>
    /\ UNCHANGED notShader

\* bind: self.needs_recompile = False, and on to glUseProgram
BindClear ==
    /\ bind_pc = Len(ShaderStages) + 1
    /\ user_needs_recompile' = FALSE
    /\ bind_pc' = 0
    /\ UNCHANGED <<user_sources, loads, update_pc, compiling, recompiled>>
    /\ UNCHANGED notShader

ShaderNext ==
    \/ UpdateSettingsCall
    \/ LoadSourceFile
    \/ SetNeedsRecompile
    \/ BindCall
    \/ CompileStage
    \/ BindClear

(***************************************************************************)
(* MICRO RENDERER, MESH: Mesh.rebuild on the main thread and Mesh.draw on  *)
(* the render thread (micro.py)                                            *)
(*                                                                         *)
(* A step is one read or write of an attribute of the mesh, or taking or   *)
(* releasing self.lock.  The buffers built from the evaluated mesh are     *)
(* known by the number of the rebuild that built them (0: none yet).       *)
(***************************************************************************)
\* Calls of rebuild on one mesh
MaxRebuilds == 4

\* The buffers in the order rebuild replaces and rebuild_vbos uploads them
MeshBuffers == <<"vertices", "normals", "indices">>

\* update_mesh calls mesh.rebuild: 'with self.lock' is entered
RebuildCall ==
    /\ rebuild_pc = 0 /\ rebuilds < MaxRebuilds
    /\ mesh_lock = "free"
    /\ mesh_lock' = "main"
    /\ rebuilds' = rebuilds + 1
    /\ rebuild_pc' = 1
    /\ UNCHANGED <<buffers, is_dirty, draw_pc, uploaded>>
    /\ UNCHANGED notMesh

\* rebuild: self.vertices, self.normals, self.indices = Buffer(...), one
\* after another
RebuildBuffer ==
    /\ rebuild_pc \in 1..Len(MeshBuffers)
    /\ buffers' = [buffers EXCEPT ![MeshBuffers[rebuild_pc]] = rebuilds]
    /\ rebuild_pc' = rebuild_pc + 1
    /\ UNCHANGED <<mesh_lock, is_dirty, rebuilds, draw_pc, uploaded>>
    /\ UNCHANGED notMesh

\* rebuild: self.is_dirty = True
RebuildDirty ==
    /\ rebuild_pc = Len(MeshBuffers) + 1
    /\ is_dirty' = TRUE
    /\ rebuild_pc' = rebuild_pc + 1
    /\ UNCHANGED <<mesh_lock, buffers, rebuilds, draw_pc, uploaded>>
    /\ UNCHANGED notMesh

\* rebuild: the with block is left
RebuildRelease ==
    /\ rebuild_pc = Len(MeshBuffers) + 2
    /\ mesh_lock' = "free"
    /\ rebuild_pc' = 0
    /\ UNCHANGED <<buffers, is_dirty, rebuilds, draw_pc, uploaded>>
    /\ UNCHANGED notMesh

\* draw: 'if self.is_dirty', read without the lock; without it draw goes
\* on to glDrawElements
DrawCall ==
    /\ draw_pc = 0
    /\ draw_pc' = IF is_dirty THEN 1 ELSE 0
    /\ UNCHANGED <<mesh_lock, buffers, is_dirty, rebuilds, rebuild_pc, uploaded>>
    /\ UNCHANGED notMesh

\* A variant of DrawAcquire that does not wait for the lock
DrawAcquire_NoLock ==
    /\ draw_pc = 1
    /\ mesh_lock' = "render"
    /\ draw_pc' = 2
    /\ UNCHANGED <<buffers, is_dirty, rebuilds, rebuild_pc, uploaded>>
    /\ UNCHANGED notMesh

\* draw: 'with self.lock' is entered
DrawAcquire ==
    /\ draw_pc = 1
    /\ mesh_lock = "free"
    /\ mesh_lock' = "render"
    /\ draw_pc' = 2
    /\ UNCHANGED <<buffers, is_dirty, rebuilds, rebuild_pc, uploaded>>
    /\ UNCHANGED notMesh

\* rebuild_vbos: glBufferData of the vertices, the normals and the
\* indices, one after another
UploadBuffer ==
    /\ draw_pc - 1 \in 1..Len(MeshBuffers)
    /\ uploaded' = [uploaded EXCEPT ![MeshBuffers[draw_pc - 1]] =
                                       buffers[MeshBuffers[draw_pc - 1]]]
    /\ draw_pc' = draw_pc + 1
    /\ UNCHANGED <<mesh_lock, buffers, is_dirty, rebuilds, rebuild_pc>>
    /\ UNCHANGED notMesh

\* draw: self.is_dirty = False
DrawClear ==
    /\ draw_pc = Len(MeshBuffers) + 2
    /\ is_dirty' = FALSE
    /\ draw_pc' = draw_pc + 1
    /\ UNCHANGED <<mesh_lock, buffers, rebuilds, rebuild_pc, uploaded>>
    /\ UNCHANGED notMesh

\* draw: the with block is left, and draw goes on to glDrawElements
DrawRelease ==
    /\ draw_pc = Len(MeshBuffers) + 3
    /\ mesh_lock' = "free"
    /\ draw_pc' = 0
    /\ UNCHANGED <<buffers, is_dirty, rebuilds, rebuild_pc, uploaded>>
    /\ UNCHANGED notMesh

\* The steps of a rebuild that has the lock
RebuildSteps ==
    \/ RebuildBuffer
    \/ RebuildDirty
    \/ RebuildRelease

\* The render thread: Blender keeps redrawing the viewport
DrawNext ==
    \/ DrawCall
    \/ DrawAcquire
    \/ UploadBuffer
    \/ DrawClear
    \/ DrawRelease

MeshNext ==
    \/ RebuildCall
    \/ RebuildSteps
    \/ DrawNext

(***************************************************************************)
(* CLAIMS: code generator                                                  *)
(***************************************************************************)
\* The call has a technique and has gone through at least one pass
Generated == gen_pc \in {"loop", "returned"} /\ gen_i > 1

\* The stage kind the call asked for occurs among the stages of pass pss
HasStage(pss, kind) == \E j \in 1..Len(pss.stages) : pss.stages[j].name = kind

\* C1: get_glsl(T, K) returns a mapping with one entry per pass of T, keyed
\* by pass name, whose value is None exactly when that pass has no stage
\* named K and a GLSL string otherwise.
C1_OneEntryPerPass ==
    gen_pc = "returned" =>
        LET ps == gen_tech.passes
        IN  /\ Cardinality(DOMAIN gen_passes) = Len(ps)
            /\ \A i \in 1..Len(ps) :
                /\ ps[i].name \in DOMAIN gen_passes
                /\ gen_passes[ps[i].name].none
                       <=> ~HasStage(ps[i], gen_args.stage_name)

\* What C2 says the string for a stage is made of, part by part
ExpVersion == <<"#version 420 core\n">>
ExpDefines(d) ==
    Flatten([i \in 1..Len(d.defines) |->
        <<"#define ", d.defines[i].key, " ", d.defines[i].value.v, "\n">>])
ExpUniforms(d) ==
    Flatten([i \in 1..Len(d.uniforms) |->
        <<"uniform ", d.uniforms[i].type_specifier, " ", d.uniforms[i].name,
          ";\n">>])
\* The body of the block a stage names: the first block declared with that name
Body(d, name) == d.glsl[FirstNamed(d.glsl, name)].code
ExpBodies(d, stage) ==
    Flatten([i \in 1..Len(stage.shader_ids) |-> Body(d, stage.shader_ids[i])])
ExpShader(d, stage) ==
    ExpVersion \o ExpDefines(d) \o ExpUniforms(d)
    \o get_stage_argument_as_glsl(d, stage.in_arg).v
    \o get_stage_argument_as_glsl(d, stage.out_arg).v
    \o ExpBodies(d, stage)

\* The stage get_glsl uses for pass pss
UsedStage(pss) == find_stage(pss, gen_args.stage_name).v

\* The last pass gone through so far that has name n
LastPassNamed(n) ==
    LET ps == gen_tech.passes
        i == CHOOSE i \in 1..(gen_i - 1) :
                ps[i].name = n /\ \A j \in (i + 1)..(gen_i - 1) : ps[j].name # n
    IN  ps[i]

\* C2: the string get_glsl produces for a pass that has a stage of the
\* requested kind is the '#version' line, the '#define' lines, one uniform
\* line per uniform in declaration order, the declarations of the in
\* argument, those of the out argument and the bodies of the named blocks,
\* concatenated in this order: both the string built in the iteration of
\* the pass and the string stored under the pass's name.
C2_ShaderIsConcatenation ==
    Generated =>
        /\ LET pss == gen_tech.passes[gen_i - 1]
           IN  HasStage(pss, gen_args.stage_name)
                   => gen_shader = ExpShader(doc, UsedStage(pss))
        /\ \A n \in DOMAIN gen_passes :
               LET pss == LastPassNamed(n)
               IN  HasStage(pss, gen_args.stage_name)
                       => /\ ~gen_passes[n].none
                          /\ gen_passes[n].v = ExpShader(doc, UsedStage(pss))

\* C2 witness: a returned mapping holds a string for a document with two
\* uniforms and a stage with a named argument
C2_Witness ==
    /\ gen_pc = "returned"
    /\ Len(doc.uniforms) = 2
    /\ \E n \in DOMAIN gen_passes :
          /\ ~gen_passes[n].none
          /\ ~UsedStage(LastPassNamed(n)).out_arg.name.none

\* The last n elements of s
Suffix(s, n) == SubSeq(s, Len(s) - n + 1, Len(s))

\* C3: the string generated for a stage whose source list is b1, ..., bn
\* ends with the body of b1 immediately followed by the body of b2 and so
\* on up to bn, in the order the stage lists them, whatever the order in
\* which the blocks are declared, with nothing between the bodies.
C3_EndsWithBodiesInListedOrder ==
    Generated =>
        \A n \in DOMAIN gen_passes :
            LET pss == LastPassNamed(n)
                ids == UsedStage(pss).shader_ids
                bodies == [i \in 1..Len(ids) |-> Body(doc, ids[i])]
                total == Len(Flatten(bodies))
            IN  HasStage(pss, gen_args.stage_name)
                    => /\ Len(gen_passes[n].v) >= total
                       /\ Suffix(gen_passes[n].v, total) = Flatten(bodies)
                       /\ \A i \in 1..Len(ids) :
                            SubSeq(Suffix(gen_passes[n].v, total),
                                   Len(Flatten(SubSeq(bodies, 1, i - 1))) + 1,
                                   Len(Flatten(SubSeq(bodies, 1, i))))
                                = bodies[i]

\* C3 witness: a string was returned for a stage that lists two blocks in
\* the order opposite to their declarations
C3_Witness ==
    /\ gen_pc = "returned"
    /\ \E n \in DOMAIN gen_passes :
          LET ids == UsedStage(LastPassNamed(n)).shader_ids
          IN  /\ ~gen_passes[n].none
              /\ Len(ids) = 2
              /\ FirstNamed(doc.glsl, ids[1]) > FirstNamed(doc.glsl, ids[2])

\* Stage s names a vertex stream or a GLSL block that the document declares nowhere
Undeclared(d, s) ==
    \/ FirstNamed(d.attributes, s.in_arg.attribute_name) = 0
    \/ FirstNamed(d.attributes, s.out_arg.attribute_name) = 0
    \/ \E i \in 1..Len(s.shader_ids) : FirstNamed(d.glsl, s.shader_ids[i]) = 0

\* C4: get_glsl(T, K) raises exactly when some pass of technique T has a
\* stage of kind K that references an undeclared name.
C4_RaisesExactlyOnUndeclaredName ==
    (gen_pc \in {"returned", "raised"}
        /\ FirstNamed(doc.techniques, gen_args.technique_name) # 0)
    => (gen_pc = "raised"
        <=> \E t \in 1..Len(doc.techniques) :
              /\ doc.techniques[t].name = gen_args.technique_name
              /\ \E p \in 1..Len(doc.techniques[t].passes) :
                   \E j \in 1..Len(doc.techniques[t].passes[p].stages) :
                      LET st == doc.techniques[t].passes[p].stages[j]
                      IN  st.name = gen_args.stage_name /\ Undeclared(doc, st))

\* The attributes of the vertex stream argument arg references: the first
\* stream declared with that name; a stream declared without attribute
\* lines has none
StreamAttributes(d, arg) ==
    LET vs == d.attributes[FirstNamed(d.attributes, arg.attribute_name)]
    IN  IF vs.attributes.none THEN <<>> ELSE vs.attributes.v

\* What C14 says a stage argument is emitted as
ExpArgument(d, arg) ==
    LET attrs == StreamAttributes(d, arg)
    IN  IF arg.name.none
        THEN Flatten([i \in 1..Len(attrs) |->
                <<arg.type_qualifier, " ", attrs[i].type_specifier, " ",
                  attrs[i].name, ";\n">>])
        ELSE <<arg.type_qualifier, " ", arg.attribute_name, " {\n">>
             \o Flatten([i \in 1..Len(attrs) |->
                    <<"    ", attrs[i].type_specifier, " ", attrs[i].name,
                      ";\n">>])
             \o <<"} ", arg.name.v, ";\n">>

\* Every stage argument of document d
StageArguments(d) ==
    UNION {UNION {UNION {{d.techniques[t].passes[p].stages[j].in_arg,
                          d.techniques[t].passes[p].stages[j].out_arg} :
                j \in 1..Len(d.techniques[t].passes[p].stages)} :
            p \in 1..Len(d.techniques[t].passes)} :
        t \in 1..Len(d.techniques)}

\* C14: for each stage argument that references a declared vertex stream,
\* get_stage_argument_as_glsl emits one top-level '<in|out> <type> <name>;'
\* line per attribute of the stream when the argument has no binding name,
\* and one interface block '<in|out> <StreamName> { <type> <name>; ... }
\* <bindName>;' holding all attributes when it has one, the attributes in
\* stream declaration order; this is the text get_glsl puts after the
\* uniform lines of a stage.
C14_StageArgumentFormat ==
    gen_pc # "idle" =>
        /\ \A arg \in StageArguments(doc) :
              FirstNamed(doc.attributes, arg.attribute_name) # 0
                  => get_stage_argument_as_glsl(doc, arg)
                         = Return(ExpArgument(doc, arg))
        /\ (Generated /\ HasStage(gen_tech.passes[gen_i - 1], gen_args.stage_name))
              => LET st == UsedStage(gen_tech.passes[gen_i - 1])
                     before == Len(ExpVersion) + Len(ExpDefines(doc))
                                   + Len(ExpUniforms(doc))
                     args == ExpArgument(doc, st.in_arg)
                                 \o ExpArgument(doc, st.out_arg)
                 IN  SubSeq(gen_shader, before + 1, before + Len(args)) = args

C20_DocumentUnchanged ==
    [][/\ doc'.uniforms = doc.uniforms
       /\ doc'.attributes = doc.attributes
       /\ doc'.techniques = doc.techniques
       /\ doc'.glsl = doc.glsl
       /\ doc'.defines = doc.defines]_vars

\* C20 witness: a call has raised in its second pass, after it built the
\* string of the first
C20_Witness ==
    /\ gen_pc = "raised"
    /\ gen_i = 2
    /\ \E n \in DOMAIN gen_passes : ~gen_passes[n].none

\* C23: a vertex stream declared without attribute lines is a VertexStream
\* whose attributes are an empty sequence, and get_glsl for a stage whose
\* argument references it succeeds, with no attribute declaration for it:
\* a call does not raise over such a stream.
C23_EmptyStreamGenerates ==
    (/\ gen_pc \in {"returned", "raised"}
     /\ FirstNamed(doc.techniques, gen_args.technique_name) # 0
     /\ \E p \in 1..Len(gen_tech.passes) :
           /\ HasStage(gen_tech.passes[p], gen_args.stage_name)
           /\ ~Undeclared(doc, UsedStage(gen_tech.passes[p]))
           /\ \E arg \in {UsedStage(gen_tech.passes[p]).in_arg,
                           UsedStage(gen_tech.passes[p]).out_arg} :
                 StreamAttributes(doc, arg) = <<>>)
    => /\ \A i \in 1..Len(doc.attributes) : ~doc.attributes[i].attributes.none
       /\ gen_pc = "raised" =>
             \E p \in 1..Len(gen_tech.passes) :
                 /\ HasStage(gen_tech.passes[p], gen_args.stage_name)
                 /\ Undeclared(doc, UsedStage(gen_tech.passes[p]))

\* The attributes of stream vs with input specifier input, in order
Matching(vs, input) ==
    IF vs.attributes.none THEN <<>>
    ELSE SelectSeq(vs.attributes.v, LAMBDA a : a.input_specifier = input)

\* C24: find_attributes(S) returns exactly the VaryingAttributes whose input
\* specifier is S, over all vertex streams of the document in declaration
\* order, and the empty list when there is none.
C24_FindAttributes ==
    gen_pc \in {"found", "find_raised"} =>
        /\ found.exc = ""
        /\ found.v = Flatten([i \in 1..Len(doc.attributes) |->
                          Matching(doc.attributes[i], found.input_specifier)])

(***************************************************************************)
(* CLAIMS: lexer                                                           *)
(***************************************************************************)
\* Opening braces minus closing braces of s
Balance(s) == CountOf(s, "{") - CountOf(s, "}")

\* C5: in embedded-code mode the brace depth is 1 at the start pattern,
\* every '{' read in that mode increments it and every '}' decrements it;
\* the block closes at the first '}' that brings the depth to 0 and the
\* GLSL token carries the captured name and the text between the opening
\* '{' and that '}'.
C5_DepthCountsEveryBrace ==
    /\ lexstate = "glsl"
          => brace_level = 1 + Balance(SubSeq(lexdata, glsl_begin + 1, lexpos))
    /\ \A i \in 1..Len(toks) :
          toks[i].type = "GLSL"
              => /\ Balance(toks[i].value) = 0
                 /\ \A k \in 1..Len(toks[i].value) :
                        Balance(SubSeq(toks[i].value, 1, k)) >= 0

\* C6: the code text of every GLSL token is brace-balanced: as many '{' as
\* '}', and no prefix with more '}' than '{'.
C6_GlslTokenBalanced ==
    \A i \in 1..Len(toks) :
        toks[i].type = "GLSL"
            => /\ CountOf(toks[i].value, "{") = CountOf(toks[i].value, "}")
               /\ \A k \in 1..Len(toks[i].value) :
                      CountOf(SubSeq(toks[i].value, 1, k), "}")
                          <= CountOf(SubSeq(toks[i].value, 1, k), "{")

\* C7: when the input ends while the lexer is in embedded-code mode,
\* tokenizing reports a lexical error.
C7_UnterminatedBlockIsAnError ==
    (lexdone /\ lexstate = "glsl") => lexerrors > 0

\* C21: what the tokenizer hands to the parser for a text does not depend
\* on what was parsed before: given the same text again, after a run that
\* ended normally, with illegal characters or inside an unterminated
\* block, the lexer yields the same tokens with the same line numbers.
C21_ParseIndependentOfHistory ==
    (lexdone /\ lex_runs > 1) => toks = lex_prev

\* C26: the lexer is in embedded-code mode exactly between a matched start
\* pattern and the '}' that closes that block: in that mode the brace depth
\* is at least 1, the text read since the start pattern has not yet closed
\* the block, and once it has, the lexer is back in Normal mode for the
\* text that follows.
C26_TwoStateMachine ==
    lexstate = "glsl" =>
        /\ brace_level >= 1
        /\ lex_runs = 1 =>
              /\ glsl_begin <= lexpos
              /\ \E p \in 0..lexpos :
                    BeginGlslMatch(dialect, lexdata, p).end = glsl_begin
              /\ \A k \in (glsl_begin + 1)..lexpos :
                    1 + Balance(SubSeq(lexdata, glsl_begin + 1, k)) >= 1

(***************************************************************************)
(* CLAIMS: load_shader                                                     *)
(***************************************************************************)
\* File f has a line that includes file g
Includes(f, g) ==
    /\ f \in DOMAIN fs
    /\ \E i \in 1..Len(fs[f]) : fs[f][i].kind = "include" /\ fs[f][i].file = g

\* The file loaded includes itself, or it and b.glsl include each other
RecursiveInclusion ==
    \/ Includes("a.glsl", "a.glsl")
    \/ Includes("a.glsl", "b.glsl") /\ Includes("b.glsl", "a.glsl")

\* No file includes the file that does not exist
NoMissingInclude == \A f \in DOMAIN fs : ~Includes(f, "m.glsl")

DepthMessage == "Include exceeds max depth. Might be a recursive inclusion"

\* C8: load_shader on a file that includes itself, or on two files that
\* include each other, never returns a string and never nests deeper than
\* the limit; it ends by raising, and unless a missing file is hit first
\* the exception is the depth error, raised by the call at depth 101.
C8_RecursiveIncludeRaises ==
    /\ [](RecursiveInclusion =>
            /\ load_pc # "returned"
            /\ Len(load_stack) <= MaxIncludeDepth + 1
            /\ \A i \in 1..Len(load_stack) : load_stack[i].depth = i - 1
            /\ (load_pc = "raised" /\ NoMissingInclude)
                  => /\ load_exc.msg = DepthMessage
                     /\ load_exc.depth = MaxIncludeDepth + 1)
    /\ (RecursiveInclusion => <>(load_pc = "raised"))

\* C8 witness: two files that include each other, and the call at depth
\* 101 has raised the depth error
C8_Witness ==
    /\ ~Includes("a.glsl", "a.glsl")
    /\ Includes("a.glsl", "b.glsl") /\ Includes("b.glsl", "a.glsl")
    /\ load_pc = "raised"
    /\ load_exc.msg = DepthMessage /\ load_exc.depth = MaxIncludeDepth + 1

\* The file loaded, or a file it includes, includes a file that does not
\* exist
MissingInclude ==
    \/ Includes("a.glsl", "m.glsl")
    \/ Includes("a.glsl", "b.glsl") /\ Includes("b.glsl", "m.glsl")

\* C15: load_shader on a file that includes a path that does not exist
\* does not return: it raises, FileNotFoundError for that path unless a
\* recursive inclusion has it raise the depth error, and no output comes
\* back, not even the text assembled from the lines before the include.
C15_MissingIncludeRaises ==
    /\ MissingInclude => load_pc # "returned"
    /\ load_pc = "raised" =>
          /\ load_result = <<>>
          /\ load_stack = <<>>
          /\ (MissingInclude /\ ~RecursiveInclusion
                /\ ~(Includes("a.glsl", "b.glsl") /\ Includes("b.glsl", "b.glsl")))
                => /\ load_exc.msg = "FileNotFoundError"
                   /\ load_exc.file \notin DOMAIN fs
                   /\ load_exc.depth >= 1
          /\ load_exc.msg = "FileNotFoundError"
                => /\ load_exc.file \notin DOMAIN fs
                   /\ \E f \in DOMAIN fs : Includes(f, load_exc.file)

\* C15 witness: the file loaded has a line of text and then an include of
\* a file that does not exist, and the call has raised FileNotFoundError
C15_Witness ==
    /\ Len(fs["a.glsl"]) = 2
    /\ fs["a.glsl"][1].kind = "text"
    /\ fs["a.glsl"][2].kind = "include" /\ fs["a.glsl"][2].file = "m.glsl"
    /\ load_pc = "raised"
    /\ load_exc.msg = "FileNotFoundError" /\ load_exc.file = "m.glsl"

RECURSIVE SplitLines(_, _, _, _)
\* The lines of string shader from piece i on, cur being the pieces of the
\* line begun: a line ends with a piece that ends with a newline, and is
\* given as its text, the pieces without their newlines
SplitLines(shader, i, cur, acc) ==
    IF i > Len(shader)
    THEN IF cur = <<>> THEN acc ELSE Append(acc, cur)
    ELSE LET p == shader[i]
             line == IF p.k = "" THEN cur ELSE Append(cur, [p EXCEPT !.nl = TRUE])
         IN  IF p.nl THEN SplitLines(shader, i + 1, <<>>, Append(acc, line))
             ELSE SplitLines(shader, i + 1, line, acc)
OutputLines(shader) == SplitLines(shader, 1, <<>>, <<>>)

\* Piece p is a '#version' directive: the default one, or a copied line
\* that is one
IsVersionPiece(p) ==
    \/ p.k = "#version"
    \/ p.k = "source" /\ fs[p.file][p.n].kind = "version"
\* The positions of the '#version' lines of file f
VersionLines(f) == {i \in 1..Len(fs[f]) : fs[f][i].kind = "version"}
\* Line i of file f is a '#version' line load_shader does not copy: any in
\* an included file, any but the first in the file loaded
Suppressed(f, i) ==
    /\ i \in VersionLines(f)
    /\ f = load_args.file => \E j \in VersionLines(f) : j < i
\* How often the string starts on file f: its '#line 1' directives
Loads(shader, f) ==
    Cardinality({i \in 1..Len(shader) : shader[i] = LineDirective(1, f)})
\* The line is text: a copied source line or an empty line, whole
IsTextLine(line) == line = <<>> \/ (Len(line) = 1 /\ line[1].k = "source")

\* C16: the string a top-level load_shader call returns contains exactly
\* one '#version' directive, the first '#version' line of the file loaded
\* when it has one and otherwise '#version 330 core' as the very first
\* line; an empty line stands where any other '#version' line stood, of an
\* included file or of the file loaded.
C16_ExactlyOneVersion ==
    load_pc = "returned" =>
        LET root == load_args.file
            out == load_result
            lines == OutputLines(out)
            versions == {i \in 1..Len(out) : IsVersionPiece(out[i])}
            empties == {i \in 1..Len(out) : out[i].k = ""}
            files == {f \in DOMAIN fs : Loads(out, f) > 0}
            suppressed == {<<f, l, i>> \in files \X (1..(MaxLines + 1))
                                                \X (1..MaxLines) :
                              l <= Loads(out, f) /\ Suppressed(f, i)}
            included == {<<f, l>> \in files \X (1..(MaxLines + 1)) :
                              l <= Loads(out, f) /\ ~(f = root /\ l = 1)}
        IN  /\ Cardinality(versions) = 1
            /\ IF VersionLines(root) # {}
               THEN \A i \in versions :
                        /\ out[i].k = "source" /\ out[i].file = root
                        /\ out[i].n \in VersionLines(root)
                        /\ \A j \in VersionLines(root) : out[i].n <= j
               ELSE out[1] = DefaultVersionLine /\ lines[1] = <<DefaultVersionLine>>
            /\ Cardinality(empties)
                   = Cardinality(suppressed) + Cardinality(included)
            /\ \A j \in 1..Len(lines) : \A f \in DOMAIN fs :
                 \A n \in 1..(MaxLines + 1) : \A k \in 0..MaxLines :
                    (/\ lines[j] = <<LineDirective(n, f)>>
                     /\ j + 1 + k <= Len(lines)
                     /\ \A m \in (j + 1)..(j + 1 + k) : IsTextLine(lines[m])
                     /\ Suppressed(f, n + k))
                        => lines[j + 1 + k] = <<>>

\* C16 witness: returned for a file that has a '#version' line and includes
\* a file that has one too
C16_Witness ==
    /\ load_pc = "returned"
    /\ VersionLines("a.glsl") # {}
    /\ Includes("a.glsl", "b.glsl")
    /\ VersionLines("b.glsl") # {}

\* C17: when load_shader is given defines, the returned string has one
\* '#define <key> <value>' line per entry and no other, in the order of the
\* mapping, on the lines right after the one '#version' line, and the line
\* after the last of them is a '#line' directive, whether the '#version'
\* line is the file's own or the default one.
C17_DefinesFollowVersion ==
    (load_pc = "returned" /\ Len(load_args.defines) > 0) =>
        LET defines == load_args.defines
            n == Len(defines)
            out == load_result
            lines == OutputLines(out)
        IN  /\ Cardinality({i \in 1..Len(out) : out[i].k = "#define"}) = n
            /\ \E v \in 1..Len(lines) :
                  /\ Len(lines[v]) = 1 /\ IsVersionPiece(lines[v][1])
                  /\ v + n + 1 <= Len(lines)
                  /\ \A i \in 1..n :
                        lines[v + i] = <<DefineLine(defines[i].key,
                                                    defines[i].value)>>
                  /\ Len(lines[v + n + 1]) = 1
                  /\ lines[v + n + 1][1].k = "#line"
                  /\ lines[v + n + 1][1].file = load_args.file

\* What line n of file f leaves in the string: its text, the empty line
\* that replaces a '#version' line, or the included file's contents, which
\* start with its '#line 1'
LineInOutput(f, n) ==
    LET l == fs[f][n]
    IN  IF l.kind = "include" THEN <<LineDirective(1, l.file)>>
        ELSE IF Suppressed(f, n) THEN <<>>
        ELSE <<SourceLine(f, n, TRUE)>>

\* C18: the line counter of every activation is one more than the number
\* of lines of its file consumed, whatever these lines were and whatever
\* '#define' lines were injected; so every '#line N "F"' of the returned
\* string is a line of its own, and the line after it is line N of file F
\* (its text, or what replaced it), or, past the end of F, the empty line
\* that closes an include.
C18_LineDirectivesAccurate ==
    /\ \A k \in 1..Len(load_stack) : load_stack[k].line_num = load_stack[k].i
    /\ load_pc = "returned" =>
          LET lines == OutputLines(load_result)
          IN  \A j \in 1..Len(lines) : \A c \in 1..Len(lines[j]) :
                LET p == lines[j][c]
                IN  p.k = "#line" =>
                      /\ lines[j] = <<p>>
                      /\ p.n \in 1..(Len(fs[p.file]) + 1)
                      /\ j < Len(lines) =>
                            IF p.n <= Len(fs[p.file])
                            THEN lines[j + 1] = LineInOutput(p.file, p.n)
                            ELSE lines[j + 1] = <<>>
                      /\ j = Len(lines) => p.n = Len(fs[p.file]) + 1

(***************************************************************************)
(* CLAIMS: GLSLPreprocessor                                                *)
(***************************************************************************)
\* File f holds a '#version' line
HasVersionLine(f) == \E i \in 1..Len(fs[f]) : fs[f][i] = VersionLine

\* C9: what parse_file writes and returns holds no '#version' directive,
\* wherever the '#version' lines of the input are.
C9_NoVersionInOutput ==
    /\ \A i \in 1..Len(oh) : oh[i].directive # "version"
    /\ \A i \in 1..Len(pre_result) : pre_result[i].directive # "version"

\* C9 witness: parse_file returned text of an included file, where the
\* file parsed starts with '#version' and the included file does too
C9_Witness ==
    /\ pre_pc = "returned"
    /\ fs["a.glsl"] = <<VersionLine, IncludeLine("b.glsl")>>
    /\ fs["b.glsl"] = <<VersionLine, TextLine>>
    /\ \E i \in 1..Len(pre_result) : pre_result[i].source = Some("b.glsl")

RECURSIVE Encountered(_, _, _)
\* The files met from line i of file f on, each where it is first met,
\* after those of seen
Encountered(f, i, seen) ==
    IF i > Len(fs[f]) THEN seen
    ELSE LET l == fs[f][i]
         IN  IF l.kind # "include" THEN Encountered(f, i + 1, seen)
             ELSE IF \E j \in 1..Len(seen) : seen[j] = l.file
             THEN Encountered(f, i + 1, seen)
             ELSE Encountered(f, i + 1,
                              Encountered(l.file, 1, Append(seen, l.file)))

\* C10: after parse_file(A), includes is A's path followed by every file
\* included directly or transitively, each once, in the order each was
\* first encountered.
C10_IncludesInEncounterOrder ==
    pre_pc = "returned" => includes = Encountered("a.glsl", 1, <<"a.glsl">>)

\* The lines of the file parsed whose text is in the string s
RootText(s) ==
    {s[i].n : i \in {j \in 1..Len(s) : s[j].k = "tokens" /\ s[j].source.none
                                        /\ s[j].directive = ""}}

\* C11: parse_file called again on an unchanged file tree, on the same
\* instance or on a fresh one, returns the text and leaves the includes
\* that the call before it did.
C11_RerunUnchanged ==
    (pre_pc = "returned" /\ pre_runs > 1)
        => /\ pre_result = pre_prev.result
           /\ includes = pre_prev.includes

C13_NoDocumentAfterError ==
    (yacc_pc = "returned" /\ p_error_calls > 0) => yacc_result.none

(***************************************************************************)
(* CLAIMS: grammar rules                                                   *)
(***************************************************************************)
\* The declaration is the uniform written with these optional parts
WrittenUniform(al, an, c) ==
    /\ decl.dialect = "ogsfx"
    /\ \E t \in {"float", "vec2"} : decl.tokens = WriteUniform(t, "color", al, an, c)

\* C22: a uniform written with any of the eight combinations of alias,
\* annotation list and default constant, in that order, parses to a
\* Uniform whose alias, annotations and value are exactly the parts written
\* (None, the empty list and None for the parts left out).
C22_UniformPartsIndependent ==
    \A al \in WrittenAliases, an \in WrittenAnnotations, c \in WrittenConstants :
        (WrittenUniform(al, an, c) /\ rule_pc # "idle") =>
            /\ rule_pc \in {"p_uniform", "p_uniform_with_alias"}
            /\ p0.alias = al
            /\ p0.annotations = an.v
            /\ p0.value = c

\* C25: a Scribble technique parses to its passes in written order, each
\* pass to its stages in written order, and each stage, written
\* 'Kind = A' or 'Kind = (A, B, ...)', to its kind and the list of its
\* source names in written order.
C25_ScribbleWrittenOrder ==
    \A pl \in WrittenPassLists :
        (/\ decl.dialect = "scribble"
         /\ decl.tokens = WriteScribbleTechnique("Main", pl)
         /\ rule_pc # "idle") =>
            /\ rule_pc = "p_technique"
            /\ Len(p0.passes) = Len(pl)
            /\ \A i \in 1..Len(pl) :
                  /\ Len(p0.passes[i].stages) = Len(pl[i])
                  /\ \A j \in 1..Len(pl[i]) :
                        /\ p0.passes[i].stages[j].name = pl[i][j].name
                        /\ p0.passes[i].stages[j].source_names
                              = pl[i][j].source_names

\* Two passes with the same stage kinds in different orders, with one and
\* with several source names, have been parsed
C25_Witness ==
    /\ rule_pc = "p_technique"
    /\ decl.tokens = WriteScribbleTechnique("Main",
                        <<<<MockGS, MockVS, MockFS>>, <<MockFS, MockVS>>>>)

\* C27: every Stage the OGSFX parser builds has an in_arg with the
\* qualifier 'in' and an out_arg with the qualifier 'out' (a stage written
\* with two 'in', two 'out' or 'out' before 'in' builds no Stage).
C27_StageArgumentQualifiers ==
    rule_pc = "p_stage" =>
        /\ p0.in_arg.type_qualifier = "in"
        /\ p0.out_arg.type_qualifier = "out"

(***************************************************************************)
(* CLAIMS: render engine                                                   *)
(***************************************************************************)
\* The material's shader has no successfully compiled program: it was never
\* compiled, or its latest compile or its latest property update raised
NoCompiledProgram ==
    \/ ~is_compiled(mat_shader)
    \/ compile_result = "raised"
    \/ updated.exc = MissingFileMessage

\* C28: whenever a frame has been drawn while the material's shader has no
\* successfully compiled program, the draw pass has rendered the material
\* with the fallback shader and not bound the material's own; and after an
\* update whose compile failed the error message is on the shader and on
\* the material settings.
C28_FallbackWhenNotCompiled ==
    /\ (drawn \notin {"none", "nothing"} /\ NoCompiledProgram) => drawn = "fallback"
    /\ (drawn = "none" /\ updated.compiled = "raised") =>
          /\ mat_shader.last_error = Some(CompileErrorMessage)
          /\ settings.last_shader_error = CompileErrorMessage

(***************************************************************************)
(* CLAIMS: micro renderer                                                  *)
(***************************************************************************)
\* C29: needs_recompile is False only when the sources last loaded are the
\* ones that were passed to recompile: with update_settings not in the
\* middle of a load, a False flag means that the latest recompile has
\* compiled the vertex and the fragment source of the latest load, so that
\* no request for a recompile is lost.
C29_RecompileNeverLost ==
    (~user_needs_recompile /\ update_pc = 0) =>
        recompiled = [vs |-> loads, fs |-> loads]

\* The draw is between its first and its last glBufferData, or about to
\* clear is_dirty
Uploading == draw_pc - 1 \in 1..(Len(MeshBuffers) + 1)
\* Rebuild number k has run to the end
RebuildCompleted(k) ==
    rebuilds > k \/ (rebuilds = k /\ rebuild_pc \in {0, Len(MeshBuffers) + 2})

Init(component) ==
    /\ dialect \in IF component = "lexer" THEN {"ogsfx", "scribble"} ELSE {"ogsfx"}
    /\ lexdata \in IF component = "lexer" THEN LexInputs(dialect) ELSE {<<>>}
    /\ lexpos = 0
    /\ lexstate = "INITIAL"
    /\ brace_level = 0
    /\ glsl_begin = 0
    /\ glsl_name = <<>>
    /\ lineno = 1
    /\ toks = <<>>
    /\ lexerrors = 0
    /\ lexdone = FALSE
    /\ lex_runs = 1
    /\ lex_prev = <<>>
    /\ doc \in IF component = "get_glsl" THEN Documents
               ELSE {OGSFXShader(<<>>, <<>>, <<>>, <<>>)}
    /\ gen_pc = "idle"
    /\ gen_args = [technique_name |-> "", stage_name |-> ""]
    /\ gen_tech = NoTechnique
    /\ gen_uniforms = <<>>
    /\ gen_defines = <<>>
    /\ gen_i = 0
    /\ gen_passes = EmptyDict
    /\ gen_shader = <<>>
    /\ gen_exc = ""
    /\ gen_calls = 0
    /\ gen_prev = [pc |-> "idle", passes |-> EmptyDict, exc |-> ""]
    /\ found = [input_specifier |-> "", exc |-> "", v |-> <<>>]
    /\ fs \in IF component = "load_shader" THEN LoadFileSystems
               ELSE IF component = "parse_file"
               THEN PreFileSystems \cup PreConditionalFileSystems
               ELSE {<<>>}
    /\ load_pc = "idle"
    /\ load_args = [file |-> "", defines |-> <<>>]
    /\ load_stack = <<>>
    /\ load_result = <<>>
    /\ load_exc = [msg |-> "", depth |-> 0, file |-> ""]
    /\ pre_pc = "idle"
    /\ pre_stack = <<>>
    /\ includes = <<>>
    /\ lastlineno = 0
    /\ lastsource = NoneStr
    /\ blanklines = 0
    /\ oh = <<>>
    /\ pre_result = <<>>
    /\ pre_exc = ""
    /\ pre_macros = {}
    /\ pre_defines = {}
    /\ pre_runs = 0
    /\ pre_prev = [result |-> <<>>, includes |-> <<>>]
    /\ pre_instance = "first"
    /\ yacc_pc = "idle"
    /\ yacc_tokens \in IF component = "parse" THEN ParseInputs ELSE {<<>>}
    /\ yacc_pos = 0
    /\ lookahead = NoToken
    /\ symstack = EmptyStack
    /\ errorcount = 0
    /\ p_error_calls = 0
    /\ yacc_result = NoneSeq
    /\ decl \in IF component = "rules" THEN RuleInputs
                ELSE {[dialect |-> "ogsfx", tokens |-> <<>>]}
    /\ rule_pc = "idle"
    /\ p0 = <<>>
    /\ mat_shader = [exists |-> FALSE, program |-> -1, last_error |-> NoneStr]
    /\ settings \in IF component = "engine"
                    THEN {[live_reload |-> TRUE, force_reload |-> FALSE,
                           last_shader_error |-> ""]}
                    ELSE {[live_reload |-> FALSE, force_reload |-> FALSE,
                           last_shader_error |-> ""]}
    /\ disk \in IF component = "engine"
                THEN [present : BOOLEAN, valid : BOOLEAN, modified : {FALSE}]
                ELSE {[present |-> TRUE, valid |-> TRUE, modified |-> FALSE]}
    /\ compile_result = "none"
    /\ updated = [compiled |-> "none", exc |-> ""]
    /\ drawn = "none"
    /\ fallback_program = -1
    /\ user_sources = [vs |-> 0, fs |-> 0]
    /\ user_needs_recompile = TRUE
    /\ loads = 0
    /\ update_pc = 0
    /\ bind_pc = 0
    /\ compiling = [vs |-> 0, fs |-> 0]
    /\ recompiled = [vs |-> 0, fs |-> 0]
    /\ mesh_lock = "free"
    /\ buffers = [vertices |-> 0, normals |-> 0, indices |-> 0]
    /\ is_dirty = FALSE
    /\ rebuilds = 0
    /\ rebuild_pc = 0
    /\ draw_pc = 0
    /\ uploaded = [vertices |-> 0, normals |-> 0, indices |-> 0]

\* The lexer tokenizing one input
SpecLex == Init("lexer") /\ [][LexNext]_vars

\* get_glsl called on a parsed document
SpecGen == Init("get_glsl") /\ [][GenNext]_vars

\* load_shader called on a.glsl
SpecLoad == Init("load_shader") /\ [][LoadNext]_vars

\* The same, with the interpreter running every call to its end
SpecLoadFair == SpecLoad /\ WF_vars(LoadNext)

\* parser.parse called on a token stream
SpecParse == Init("parse") /\ [][YaccNext]_vars

\* GLSLPreprocessor.parse_file called on a.glsl
SpecPre == Init("parse_file") /\ [][PreNext]_vars

\* The rule functions run on one declaration
SpecRules == Init("rules") /\ [][RuleNext]_vars

\* The render engine's callbacks, the user and the disk
SpecEngine == Init("engine") /\ [][EngineNext]_vars

\* The user shader between the main and the render thread
SpecShader == Init("shader") /\ [][ShaderNext]_vars

\* A mesh between the main and the render thread
SpecMesh == Init("mesh") /\ [][MeshNext]_vars

\* The same where both threads keep running: a rebuild that has the lock
\* runs to its end, and Blender keeps calling view_draw, whose draw takes
\* the lock when it is free
SpecMeshFair == SpecMesh /\ WF_vars(RebuildSteps) /\ WF_vars(DrawNext)

=============================================================================
